---- MODULE Spec2Model ----
(***************************************************************************)
(* Verification model of the mailwebhook MCP gateway: rate limiter, the    *)
(* request pipeline's rate-limit gate, the session registry, the three     *)
(* JSON-RPC transports and the cache manager.                              *)
(*                                                                         *)
(* Time is the value of Date.now() in milliseconds, held in `now`.  Each   *)
(* component has its own specification (SpecRL, SpecGate, ...) over the    *)
(* shared variables; a specification leaves the other components' state    *)
(* unchanged.                                                              *)
(***************************************************************************)
EXTENDS Integers, Sequences, FiniteSets, TLC

VARIABLES
    now,        \* Date.now(), ms
    config,     \* RateLimiter.config of the long-lived limiter
    records,    \* RateLimiter.records: key -> RateLimitRecord
    rlLast,     \* result of the last check on the long-lived limiter
    rlWin,      \* per key: start of the current fixed window and checks seen in it
    rlChecks,   \* number of checks made so far (bounds the run)
    rlReset,    \* the last resetClient of a blocked key, and whether the next check
                \* on that key has been made inside the window the key was blocked in
    gateLast,   \* outcome of the last request through the rate-limit middleware
    gateWin,    \* per (client, path) key: window start and requests seen in it
    gateReqs,   \* number of requests sent through the gate (bounds the run)
    syncLast,   \* last POST to the synchronous endpoint: request and HTTP response
    cfHandlers, \* McpCloudflareCompatibleHandler instances: the sessions map of each
    cfStreams,  \* per session id of that handler: the stream opened by the connect
    cfLast,     \* outcome of the last request to /mcp/sse or /mcp/sse/message
    slConn,     \* the stateless stream connection (SSETransportSimplified)
    sessions,   \* SSESessionManager.sessions, in Map insertion order
    lastCleanup,\* SSESessionManager.lastCleanup
    uuidCount,  \* session ids handed out so far (crypto.randomUUID never repeats)
    sessLast,   \* outcome of the last operation on the session registry
    cacheConfig,\* CacheManager.config
    cacheStore, \* caches.default: the response stored under the one cache key
    fetchCount, \* invocations of fetchFunction so far
    cacheLast,  \* the last getOrSet call and the one before it
    cacheWrittenAt, \* Date.now() at the last cache.put (the header keeps whole seconds)
    cacheOp,    \* the last get or set call made directly, and the call before it
    dispLast,   \* the last message handed to a transport's dispatch, and its outcome
    toolLast,   \* the last ToolRegistry.callTool: name, arguments and what came of it
    http,   \* the HttpClient and its request in progress: attempts made, waits, outcome
    cacheFx,\* the last cache operation made while the store can fail, and what came of it
    cacheRun \* a get in progress across its suspension points, and the last completed set

rlVars   == <<config, records, rlLast, rlWin, rlChecks, rlReset>>
gateVars == <<gateLast, gateWin, gateReqs>>
syncVars == <<syncLast>>
cfVars   == <<cfHandlers, cfStreams, cfLast>>
slVars   == <<slConn>>
sessVars == <<sessions, lastCleanup, uuidCount, sessLast>>
cacheVars == <<cacheConfig, cacheStore, fetchCount, cacheLast, cacheWrittenAt, cacheOp>>
dispVars == <<dispLast>>
toolVars == <<toolLast>>
httpVars == <<http>>
fxVars == <<cacheFx>>
runVars == <<cacheRun>>
vars     == <<now, rlVars, gateVars, syncVars, cfVars, slVars, sessVars, cacheVars,
              dispVars, toolVars, httpVars, fxVars, runVars>>

\* what the actions of one component leave alone
exceptRL   == <<gateVars, syncVars, cfVars, slVars, sessVars, cacheVars, dispVars, toolVars, httpVars, fxVars, runVars>>
exceptGate == <<rlVars, syncVars, cfVars, slVars, sessVars, cacheVars, dispVars, toolVars, httpVars, fxVars, runVars>>
exceptSync == <<rlVars, gateVars, cfVars, slVars, sessVars, cacheVars, dispVars, toolVars, httpVars, fxVars, runVars>>
exceptCf   == <<rlVars, gateVars, syncVars, slVars, sessVars, cacheVars, dispVars, toolVars, httpVars, fxVars, runVars>>
exceptSl   == <<rlVars, gateVars, syncVars, cfVars, sessVars, cacheVars, dispVars, toolVars, httpVars, fxVars, runVars>>
exceptSess == <<rlVars, gateVars, syncVars, cfVars, slVars, cacheVars, dispVars, toolVars, httpVars, fxVars, runVars>>
exceptCache == <<rlVars, gateVars, syncVars, cfVars, slVars, sessVars, dispVars, toolVars, httpVars, fxVars, runVars>>
exceptDisp == <<rlVars, gateVars, syncVars, cfVars, slVars, sessVars, cacheVars, toolVars, httpVars, fxVars, runVars>>
exceptTool == <<rlVars, gateVars, syncVars, cfVars, slVars, sessVars, cacheVars, dispVars, httpVars, fxVars, runVars>>
exceptHttp == <<rlVars, gateVars, syncVars, cfVars, slVars, sessVars, cacheVars, dispVars, toolVars, fxVars, runVars>>
exceptFx == <<rlVars, gateVars, syncVars, cfVars, slVars, sessVars, cacheVars, dispVars, toolVars, httpVars, runVars>>
exceptRun == <<cacheConfig, fetchCount, cacheLast, cacheWrittenAt, cacheOp,
               rlVars, gateVars, syncVars, cfVars, slVars, sessVars, dispVars,
               toolVars, httpVars, fxVars>>

(***************************************************************************)
(* Bounds of the model.                                                    *)
(***************************************************************************)
BaseMaxSmall == 2       \* RATE_LIMIT_MAX_REQUESTS of the small deployment
BaseMaxLarge == 3       \* RATE_LIMIT_MAX_REQUESTS of the large deployment
WindowMs     == 1000    \* RATE_LIMIT_WINDOW
RLTick       == 500     \* clock step of the rate-limiter specifications, ms
MaxNowRL     == 1500    \* the rate-limiter specifications stop the clock here
MaxChecks    == 3       \* checks per run
MaxGateReqs  == 4       \* requests per run through the gate
MaxKeys      == 2       \* rate-limit records held at a time
MaxBatch     == 2       \* messages in a batch request
MaxCfHandlers == 2      \* requests per run to /mcp/sse and /mcp/sse/message
CfTick       == 300000  \* clock step of the stateful-stream specification, ms
MaxNowCf     == 600000  \* the stateful-stream specification stops the clock here
SlTick       == 100000  \* clock step of the stateless-stream specification, ms
MaxNowSl     == 300000  \* the stateless-stream specification stops the clock here
MaxSlEvents  == 5       \* events written to one stateless stream
SessTick     == 200000  \* clock step of the session-registry specifications, ms
MaxNowSess   == 400000  \* the session-registry specifications stop the clock here
CacheDefaultTtl == 2    \* CACHE_TTL of the deployment, seconds
CacheTick    == 500     \* clock step of the cache specification, ms
MaxNowCache  == 2500    \* the cache specification stops the clock here
MaxFetches   == 2       \* invocations of fetchFunction per run
MaxNewSessions == 1     \* session ids handed out per run beyond the initial table
MaxRetriesOpt == 3      \* largest options.retries an HttpClient is constructed with

NoRecord == [count |-> -1, resetTime |-> -1, blocked |-> FALSE]
None     == "none"

ClientIds == {"A", "B"}
\* "" stands for an omitted endpoint argument (both are falsy in generateKey)
Endpoints == {"", "/admin", "/mcp/tools/call", "/mcp/tools", "/mcp/v1"}
Paths     == Endpoints \ {""}
\* a route below /admin (app.get('/admin/info'))
AdminSubPaths == {"/admin/info"}

(***************************************************************************)
(* Arithmetic helpers.                                                     *)
(***************************************************************************)
\* Math.ceil(x / 1000) for an integer x
CeilDiv1000(x) == IF x >= 0 THEN (x + 999) \div 1000 ELSE -((-x) \div 1000)

\* Map.set(key, value)
MapSet(m, k, v) == [x \in (DOMAIN m) \cup {k} |-> IF x = k THEN v ELSE m[x]]

\* Map.delete(key)
MapDelete(m, k) == [x \in (DOMAIN m) \ {k} |-> m[x]]

EmptyMap == [x \in {} |-> NoRecord]

(***************************************************************************)
(* RateLimiter                                                             *)
(***************************************************************************)
\* constructor: config from the environment
RateLimiterConfig(enabled, windowMs, maxRequests) ==
    [enabled |-> enabled, windowMs |-> windowMs, maxRequests |-> maxRequests]

generateKey(clientId, endpoint) ==
    IF endpoint # "" THEN clientId \o ":" \o endpoint ELSE clientId

\* CurrentRecord keeping the blocked flag of the elapsed window
CurrentRecord_KeepsBlocked(cfg, recs, t, key) ==
    IF key \notin DOMAIN recs
    THEN [count |-> 0, resetTime |-> t + cfg.windowMs, blocked |-> FALSE]
    ELSE IF t >= recs[key].resetTime
         THEN [count |-> 0, resetTime |-> t + cfg.windowMs,
               blocked |-> recs[key].blocked]
         ELSE recs[key]

\* The record the check works on: the stored one, or a new one when there is
\* none or its window has elapsed.
CurrentRecord(cfg, recs, t, key) ==
    IF key \notin DOMAIN recs \/ t >= recs[key].resetTime
    THEN [count |-> 0, resetTime |-> t + cfg.windowMs, blocked |-> FALSE]
    ELSE recs[key]

isRateLimited_OffByOne(cfg, recs, t, clientId, endpoint) ==
    IF ~cfg.enabled
    THEN [limited |-> FALSE, retryAfter |-> 0, records |-> recs,
          record |-> [count |-> 0, resetTime |-> 0, blocked |-> FALSE]]
    ELSE LET key == generateKey(clientId, endpoint)
             rec == CurrentRecord(cfg, recs, t, key)
             inc == [rec EXCEPT !.count = rec.count + 1]
         IN  IF inc.count >= cfg.maxRequests
             THEN LET blk == [inc EXCEPT !.blocked = TRUE]
                  IN  [limited |-> TRUE,
                       retryAfter |-> CeilDiv1000(blk.resetTime - t),
                       records |-> MapSet(recs, key, blk), record |-> blk]
             ELSE [limited |-> FALSE, retryAfter |-> 0,
                   records |-> MapSet(recs, key, inc), record |-> inc]

\* isRateLimited(clientId, endpoint) at time t on a limiter with configuration
\* cfg and records recs; `records` is the map afterwards, retryAfter is 0 when
\* the result carries none.
isRateLimited(cfg, recs, t, clientId, endpoint) ==
    IF ~cfg.enabled
    THEN [limited |-> FALSE, retryAfter |-> 0, records |-> recs,
          record |-> [count |-> 0, resetTime |-> 0, blocked |-> FALSE]]
    ELSE LET key == generateKey(clientId, endpoint)
             rec == CurrentRecord(cfg, recs, t, key)
             inc == [rec EXCEPT !.count = rec.count + 1]
         IN  IF inc.count > cfg.maxRequests
             THEN LET blk == [inc EXCEPT !.blocked = TRUE]
                  IN  [limited |-> TRUE,
                       retryAfter |-> CeilDiv1000(blk.resetTime - t),
                       records |-> MapSet(recs, key, blk), record |-> blk]
             ELSE [limited |-> FALSE, retryAfter |-> 0,
                   records |-> MapSet(recs, key, inc), record |-> inc]

\* getEndpointConfig(endpoint) merged over the configuration, as Object.assign
\* does: only the three listed paths have an override.
getEndpointConfig(cfg, endpoint) ==
    CASE endpoint = "/admin"          -> [cfg EXCEPT !.maxRequests = cfg.maxRequests \div 6]
      [] endpoint = "/mcp/tools/call" -> [cfg EXCEPT !.maxRequests = (cfg.maxRequests * 8) \div 10]
      [] endpoint = "/mcp/tools"      -> [cfg EXCEPT !.maxRequests = (cfg.maxRequests * 3) \div 10]
      [] OTHER                        -> cfg

\* isRateLimitedByEndpoint without the restoring assignment
isRateLimitedByEndpoint_NoRestore(cfg, recs, t, clientId, endpoint) ==
    LET overridden     == getEndpointConfig(cfg, endpoint)
        result         == isRateLimited(overridden, recs, t, clientId, endpoint)
    IN  [result |-> result, config |-> overridden, during |-> overridden]

\* isRateLimitedByEndpoint: the override is applied, the check made, the
\* original configuration restored; the call is synchronous.  `during` is
\* this.config while isRateLimited runs, `config` is this.config at return.
isRateLimitedByEndpoint(cfg, recs, t, clientId, endpoint) ==
    LET originalConfig == cfg
        overridden     == getEndpointConfig(cfg, endpoint)
        result         == isRateLimited(overridden, recs, t, clientId, endpoint)
    IN  [result |-> result, config |-> originalConfig, during |-> overridden]

\* getClientStatus(clientId, endpoint).remaining
getClientStatus(cfg, recs, clientId, endpoint) ==
    LET key == generateKey(clientId, endpoint)
    IN  IF key \notin DOMAIN recs
        THEN cfg.maxRequests
        ELSE IF cfg.maxRequests - recs[key].count > 0
             THEN cfg.maxRequests - recs[key].count
             ELSE 0

\* cleanupExpiredRecords: the interval sweep
cleanupExpiredRecords(recs, t) ==
    [k \in {x \in DOMAIN recs : ~(t >= recs[x].resetTime)} |-> recs[k]]

\* The fixed window a check at time t on `key` falls in, and its number in it.
WindowAfter(win, windowMs, t, key) ==
    IF key \notin DOMAIN win \/ t >= win[key].start + windowMs
    THEN [start |-> t, n |-> 1]
    ELSE [start |-> win[key].start, n |-> win[key].n + 1]

\* base: this.config as the constructor set it; during: this.config while
\* isRateLimited ran; prev, record: the stored record of the key before the
\* check and the record of the result; at: Date.now() of the check;
\* remaining: getClientStatus right after the check
NoCheck == [key |-> None, max |-> 0, n |-> 0, limited |-> FALSE, retryAfter |-> 0,
            count |-> 0, byEndpoint |-> FALSE, endpoint |-> "",
            base |-> RateLimiterConfig(FALSE, 0, 0),
            during |-> RateLimiterConfig(FALSE, 0, 0),
            prev |-> NoRecord, record |-> NoRecord, at |-> 0, remaining |-> 0,
            clientId |-> "", othersKept |-> TRUE]

\* the records of the keys other than key are what they were
OtherRecordsKept(before, after, key) ==
    /\ DOMAIN after \ {key} = DOMAIN before \ {key}
    /\ \A k \in DOMAIN before \ {key} : after[k] = before[k]

\* the stored record of a key
StoredRecord(recs, key) == IF key \in DOMAIN recs THEN recs[key] ELSE NoRecord

\* this.config as the constructor set it, carried from check to check
BaseConfig == IF rlLast.key = None THEN config ELSE rlLast.base

NoReset == [state |-> None, key |-> None, windowEnd |-> 0]

\* rlReset after a check on `key` at time t
ResetAfterCheck(reset, key, t) ==
    IF reset.state = "pending" /\ reset.key = key
    THEN IF t < reset.windowEnd THEN [reset EXCEPT !.state = "checked"] ELSE NoReset
    ELSE IF reset.state = "checked" THEN NoReset ELSE reset

\* the configurations the constructor can read from the environment
Envs == {RateLimiterConfig(e, WindowMs, m) :
            e \in BOOLEAN, m \in {BaseMaxSmall, BaseMaxLarge}}
DefaultEnv == RateLimiterConfig(TRUE, WindowMs, BaseMaxLarge)

InitRL(envs) ==
    /\ config \in envs
    /\ records = EmptyMap
    /\ rlLast = NoCheck
    /\ rlWin = [x \in {} |-> [start |-> 0, n |-> 0]]
    /\ rlChecks = 0
    /\ rlReset = NoReset

\* client identifiers of the key specification: a plain one and an IPv6
\* address (the value of CF-Connecting-IP)
KeyClientIds == {"A", "fe80::1"}
KeyPaths     == {"/admin", "/mcp/v1"}
KeyPairs     == KeyClientIds \X (KeyPaths \cup {""})

\* the strings without ':' that the keys of KeyPairs are made of
KeyAtoms == {"A", "fe80", "", "1"} \cup KeyPaths

\* parts joined by ':'
RECURSIVE JoinColon(_)
JoinColon(parts) ==
    IF Len(parts) = 1 THEN parts[1]
    ELSE parts[1] \o ":" \o JoinColon(Tail(parts))

\* key.split(':') for the keys of KeyPairs
SplitTable ==
    [key \in {generateKey(pair[1], pair[2]) : pair \in KeyPairs} |->
        CHOOSE parts \in UNION {[1..n -> KeyAtoms] : n \in 1..4} :
            JoinColon(parts) = key]

\* getBlockedClients(): parts[1] is undefined ("") for a key without ':'
getBlockedClients(recs, t) ==
    {[clientId |-> SplitTable[key][1],
      endpoint |-> IF Len(SplitTable[key]) >= 2 THEN SplitTable[key][2] ELSE "",
      count |-> recs[key].count,
      resetTime |-> recs[key].resetTime] :
        key \in {k \in DOMAIN recs : recs[k].blocked /\ t < recs[k].resetTime}}

\* The run keeps at most MaxKeys records.
KeyAdmitted(key) ==
    key \in DOMAIN records \/ Cardinality(DOMAIN records) < MaxKeys

\* A direct check against the base maximum.
CheckBase(clientId, endpoint) ==
    /\ rlChecks < MaxChecks
    /\ KeyAdmitted(generateKey(clientId, endpoint))
    /\ LET r   == isRateLimited(config, records, now, clientId, endpoint)
           key == generateKey(clientId, endpoint)
           w   == WindowAfter(rlWin, config.windowMs, now, key)
       IN  /\ records' = r.records
           /\ rlWin' = MapSet(rlWin, key, w)
           /\ rlLast' = [key |-> key, max |-> config.maxRequests, n |-> w.n,
                         limited |-> r.limited, retryAfter |-> r.retryAfter,
                         count |-> r.record.count, byEndpoint |-> FALSE,
                         endpoint |-> endpoint, base |-> BaseConfig,
                         during |-> config, prev |-> StoredRecord(records, key),
                         record |-> r.record, at |-> now,
                         remaining |-> getClientStatus(config, r.records,
                                                       clientId, endpoint),
                         clientId |-> clientId,
                         othersKept |-> OtherRecordsKept(records, r.records, key)]
    /\ rlChecks' = rlChecks + 1
    /\ rlReset' = ResetAfterCheck(rlReset, generateKey(clientId, endpoint), now)
    /\ UNCHANGED <<now, config, exceptRL>>

\* An endpoint-aware check.
CheckByEndpoint(clientId, endpoint) ==
    /\ rlChecks < MaxChecks
    /\ KeyAdmitted(generateKey(clientId, endpoint))
    /\ LET c   == isRateLimitedByEndpoint(config, records, now, clientId, endpoint)
           r   == c.result
           key == generateKey(clientId, endpoint)
           w   == WindowAfter(rlWin, config.windowMs, now, key)
       IN  /\ records' = r.records
           /\ config' = c.config
           /\ rlWin' = MapSet(rlWin, key, w)
           /\ rlLast' = [key |-> key,
                         max |-> getEndpointConfig(config, endpoint).maxRequests,
                         n |-> w.n, limited |-> r.limited,
                         retryAfter |-> r.retryAfter,
                         count |-> r.record.count, byEndpoint |-> TRUE,
                         endpoint |-> endpoint, base |-> BaseConfig,
                         during |-> c.during, prev |-> StoredRecord(records, key),
                         record |-> r.record, at |-> now,
                         remaining |-> getClientStatus(c.config, r.records,
                                                       clientId, endpoint),
                         clientId |-> clientId,
                         othersKept |-> OtherRecordsKept(records, r.records, key)]
    /\ rlChecks' = rlChecks + 1
    /\ rlReset' = ResetAfterCheck(rlReset, generateKey(clientId, endpoint), now)
    /\ UNCHANGED <<now, exceptRL>>

\* rlReset after resetClient on `key` at time t
ResetAfterReset(reset, recs, key, t) ==
    IF recs[key].blocked /\ t < recs[key].resetTime
    THEN [state |-> "pending", key |-> key, windowEnd |-> recs[key].resetTime]
    ELSE IF reset.key = key THEN NoReset ELSE reset

\* resetClient(clientId, endpoint) that clears the blocked flag and keeps the count
resetClient_KeepsCount(clientId, endpoint) ==
    /\ generateKey(clientId, endpoint) \in DOMAIN records
    /\ records' = [records EXCEPT ![generateKey(clientId, endpoint)].blocked = FALSE]
    /\ rlWin' = MapDelete(rlWin, generateKey(clientId, endpoint))
    /\ rlReset' = ResetAfterReset(rlReset, records, generateKey(clientId, endpoint), now)
    /\ UNCHANGED <<now, config, rlLast, rlChecks, exceptRL>>

\* resetClient(clientId, endpoint)
resetClient(clientId, endpoint) ==
    /\ generateKey(clientId, endpoint) \in DOMAIN records
    /\ records' = MapDelete(records, generateKey(clientId, endpoint))
    /\ rlWin' = MapDelete(rlWin, generateKey(clientId, endpoint))
    /\ rlReset' = ResetAfterReset(rlReset, records, generateKey(clientId, endpoint), now)
    /\ UNCHANGED <<now, config, rlLast, rlChecks, exceptRL>>

\* the setInterval callback of the constructor
SweepRecords ==
    /\ records' = cleanupExpiredRecords(records, now)
    /\ records' # records
    /\ rlWin' = [k \in {x \in DOMAIN rlWin : now < rlWin[x].start + config.windowMs}
                    |-> rlWin[k]]
    /\ UNCHANGED <<now, config, rlLast, rlChecks, rlReset, exceptRL>>

TickRL ==
    /\ now < MaxNowRL
    /\ now' = now + RLTick
    /\ UNCHANGED <<rlVars, exceptRL>>

(***************************************************************************)
(* The request pipeline's rate-limit gate                                  *)
(***************************************************************************)
\* createSecurityMiddleware(env): constructs a RateLimiter of its own
createSecurityMiddleware(env) ==
    [rateLimiter |-> [config |-> env, records |-> EmptyMap]]

\* security.rateLimit(c, next): 429 when limited, otherwise the handler runs
rateLimit(security, t, clientId, path) ==
    IF path = "/health"
    THEN [status |-> "next", retryAfter |-> 0]
    ELSE LET rl == security.rateLimiter
             result == isRateLimitedByEndpoint(rl.config, rl.records, t,
                                               clientId, path).result
         IN  IF result.limited
             THEN [status |-> "429", retryAfter |-> result.retryAfter]
             ELSE [status |-> "next", retryAfter |-> 0]

NoGate == [key |-> None, max |-> 0, n |-> 0, status |-> None]

InitGate ==
    /\ gateLast = NoGate
    /\ gateWin = [x \in {} |-> [start |-> 0, n |-> 0]]
    /\ gateReqs = 0

\* app.use('*') rate-limit middleware: one HTTP request of clientId to path.
\* The environment of the request is the environment `config` was read from.
GateRequest(clientId, path) ==
    /\ gateReqs < MaxGateReqs
    /\ LET security == createSecurityMiddleware(config)
           out == IF path = "/health"
                  THEN [status |-> "next", retryAfter |-> 0]
                  ELSE rateLimit(security, now, clientId, path)
           key == generateKey(clientId, path)
           w   == WindowAfter(gateWin, config.windowMs, now, key)
       IN  /\ gateWin' = MapSet(gateWin, key, w)
           /\ gateLast' = [key |-> key,
                           max |-> getEndpointConfig(config, path).maxRequests,
                           n |-> w.n, status |-> out.status]
    /\ gateReqs' = gateReqs + 1
    /\ UNCHANGED <<now, exceptGate>>

(***************************************************************************)
(* JSON-RPC messages                                                       *)
(*                                                                         *)
(* A message is what c.req.json() returned.  `truthy` is FALSE for the     *)
(* JSON values null, 0, false and "" (which have no fields).  An id is     *)
(* "absent" (no id member), "null", the number 0 ("n0"), the number 1      *)
(* ("n1"), the string "a" ("s_a") or the empty string ("s_empty").         *)
(***************************************************************************)
IdValues    == {"absent", "null", "n0", "n1", "s_a", "s_empty"}
FalsyIds    == {"absent", "null", "n0", "s_empty"}
TagValues   == {"2.0", "1.0", "absent"}
Methods     == {"absent", "initialize", "tools/list", "tools/call", "ping",
                "notifications/initialized", "foo"}
\* params: absent, an object without name and clientInfo, an object with both
ParamKinds  == {"absent", "empty", "full"}
\* what toolRegistry.callTool resolves to for the named tool
ToolResults == {"ok", "fail"}
\* the named tool and its arguments: a registered tool whose handler succeeds
\* ("ok"), reports failure ("fail") or throws ("throws"); a name that is not
\* registered ("unknown"); arguments the tool's schema rejects ("invalid")
ToolOutcomes == ToolResults \cup {"unknown", "invalid", "throws"}
\* ... and arguments on which validation itself throws (arguments: null)
ToolFaults == {"argsFault"}

\* ToolRegistry.callTool(name, args): the ApiResponse's success flag, where
\* its error text comes from, whether a tool handler was invoked, and whether
\* the call ended with an exception instead of an ApiResponse
\* callTool without its try/catch: a fault leaves the call as an exception
callTool_NoCatch(tool) ==
    CASE tool = "unknown" -> [success |-> FALSE, error |-> "unknownTool", invoked |-> FALSE, escaped |-> FALSE]
      [] tool = "invalid" -> [success |-> FALSE, error |-> "validation", invoked |-> FALSE, escaped |-> FALSE]
      [] tool = "ok"      -> [success |-> TRUE,  error |-> "none",       invoked |-> TRUE, escaped |-> FALSE]
      [] tool = "fail"    -> [success |-> FALSE, error |-> "handler",    invoked |-> TRUE, escaped |-> FALSE]
      [] tool = "argsFault" -> [success |-> FALSE, error |-> "none", invoked |-> FALSE, escaped |-> TRUE]
      [] OTHER            -> [success |-> FALSE, error |-> "none",  invoked |-> TRUE, escaped |-> TRUE]

callTool_UnknownSucceeds(tool) ==
    CASE tool = "unknown" -> [success |-> TRUE,  error |-> "none",       invoked |-> FALSE, escaped |-> FALSE]
      [] tool = "invalid" -> [success |-> FALSE, error |-> "validation", invoked |-> FALSE, escaped |-> FALSE]
      [] tool = "ok"      -> [success |-> TRUE,  error |-> "none",       invoked |-> TRUE, escaped |-> FALSE]
      [] tool = "fail"    -> [success |-> FALSE, error |-> "handler",    invoked |-> TRUE, escaped |-> FALSE]
      [] tool = "argsFault" -> [success |-> FALSE, error |-> "exception", invoked |-> FALSE, escaped |-> FALSE]
      [] OTHER            -> [success |-> FALSE, error |-> "exception",  invoked |-> TRUE, escaped |-> FALSE]

callTool(tool) ==
    CASE tool = "unknown" -> [success |-> FALSE, error |-> "unknownTool", invoked |-> FALSE, escaped |-> FALSE]
      [] tool = "invalid" -> [success |-> FALSE, error |-> "validation", invoked |-> FALSE, escaped |-> FALSE]
      [] tool = "ok"      -> [success |-> TRUE,  error |-> "none",       invoked |-> TRUE, escaped |-> FALSE]
      [] tool = "fail"    -> [success |-> FALSE, error |-> "handler",    invoked |-> TRUE, escaped |-> FALSE]
      [] tool = "argsFault" -> [success |-> FALSE, error |-> "exception", invoked |-> FALSE, escaped |-> FALSE]
      [] OTHER            -> [success |-> FALSE, error |-> "exception",  invoked |-> TRUE, escaped |-> FALSE]

Message(truthy, tag, id, method, hasResult, params, tool) ==
    [truthy |-> truthy, jsonrpc |-> tag, id |-> id, method |-> method,
     hasResult |-> hasResult, params |-> params, tool |-> tool]

FalsyMessage == Message(FALSE, "absent", "absent", "absent", FALSE, "absent", "ok")

Messages ==
    {FalsyMessage} \cup
    {Message(TRUE, t, i, m, r, p, o) :
        t \in TagValues, i \in IdValues, m \in Methods, r \in BOOLEAN,
        p \in ParamKinds, o \in ToolResults}

\* the JavaScript expression  id || null
OrNull(id) == IF id \in FalsyIds THEN "null" ELSE id

NoResponse == [kind |-> "none", id |-> "absent", code |-> "none", isError |-> FALSE]
Result(id, isError) == [kind |-> "result", id |-> id, code |-> "none", isError |-> isError]
ErrorObject(id, code) == [kind |-> "error", id |-> id, code |-> code, isError |-> FALSE]

(***************************************************************************)
(* Synchronous transport: McpStreamableHttpHandler                         *)
(***************************************************************************)
\* createJsonRpcError(id, code, message, data)
StreamableCreateJsonRpcError(id, code) == ErrorObject(OrNull(id), code)

\* handleCallToolMethod(message, c)
handleCallToolMethod(message) ==
    IF message.params # "full"
    THEN StreamableCreateJsonRpcError(message.id, "InvalidParams")
    ELSE Result(message.id, ~callTool(message.tool).success)

\* processJsonRpcMessage(message, c): the response, or NoResponse for null
StreamableProcessJsonRpcMessage(message) ==
    IF ~message.truthy \/ message.jsonrpc # "2.0"
    THEN StreamableCreateJsonRpcError(OrNull(message.id), "InvalidRequest")
    ELSE IF message.id = "absent"
    THEN NoResponse
    ELSE CASE message.method = "initialize" -> Result(message.id, FALSE)
           [] message.method = "tools/list" -> Result(message.id, FALSE)
           [] message.method = "tools/call" -> handleCallToolMethod(message)
           [] message.method = "ping"       -> Result(message.id, FALSE)
           [] OTHER -> StreamableCreateJsonRpcError(message.id, "MethodNotFound")

\* Array.prototype.map over the batch
RECURSIVE MapProcess(_)
MapProcess(body) ==
    IF body = <<>> THEN <<>>
    ELSE <<StreamableProcessJsonRpcMessage(Head(body))>> \o MapProcess(Tail(body))

\* responses.filter(r => r !== null)
RECURSIVE FilterNonNull(_)
FilterNonNull(rs) ==
    IF rs = <<>> THEN <<>>
    ELSE (IF Head(rs) = NoResponse THEN <<>> ELSE <<Head(rs)>>) \o FilterNonNull(Tail(rs))

\* handleHttpPost(c).  request: contentTypeOk, parses (c.req.json() succeeds),
\* isArray, body (the messages: one for a single request).
\* response: status, body "none" | "object" | "array", entries.
handleHttpPost(request) ==
    IF ~request.contentTypeOk
    THEN [status |-> 400, body |-> "object",
          entries |-> <<StreamableCreateJsonRpcError("null", "InvalidRequest")>>]
    ELSE IF ~request.parses
    THEN [status |-> 400, body |-> "object",
          entries |-> <<StreamableCreateJsonRpcError("null", "ParseError")>>]
    ELSE IF request.isArray
    THEN [status |-> 200, body |-> "array",
          entries |-> FilterNonNull(MapProcess(request.body))]
    ELSE LET response == StreamableProcessJsonRpcMessage(request.body[1])
         IN  IF response = NoResponse
             THEN [status |-> 204, body |-> "none", entries |-> <<>>]
             ELSE [status |-> 200, body |-> "object", entries |-> <<response>>]

\* The messages batches are built from.
BatchMessages ==
    {FalsyMessage} \cup
    {Message(TRUE, t, i, m, FALSE, p, "ok") :
        t \in {"2.0", "1.0"}, i \in {"absent", "n0", "n1"},
        m \in {"ping", "tools/call", "foo"}, p \in {"absent", "full"}}

RECURSIVE SeqsUpTo(_, _)
SeqsUpTo(S, n) ==
    IF n = 0 THEN {<<>>}
    ELSE LET shorter == SeqsUpTo(S, n - 1)
         IN  shorter \cup {Append(q, x) : q \in {r \in shorter : Len(r) = n - 1}, x \in S}

SyncRequests ==
    {[contentTypeOk |-> TRUE, parses |-> TRUE, isArray |-> TRUE, body |-> b] :
        b \in SeqsUpTo(BatchMessages, MaxBatch)}
    \cup
    {[contentTypeOk |-> ct, parses |-> ps, isArray |-> FALSE, body |-> <<m>>] :
        ct \in BOOLEAN, ps \in BOOLEAN, m \in BatchMessages}

NoSync == [request |-> [contentTypeOk |-> FALSE, parses |-> FALSE, isArray |-> FALSE,
                        body |-> <<>>],
           response |-> [status |-> 0, body |-> "none", entries |-> <<>>],
           served |-> FALSE]

InitSync == syncLast = NoSync

\* POST /mcp/v1
\* POST /mcp/v1.  The handler keeps no state between requests, so a run
\* serves one request.
HandleHttpPost(request) ==
    /\ ~syncLast.served
    /\ syncLast' = [request |-> request, response |-> handleHttpPost(request),
                    served |-> TRUE]
    /\ UNCHANGED <<now, exceptSync>>

(***************************************************************************)
(* Stateful stream: McpCloudflareCompatibleHandler (/mcp/sse and           *)
(* /mcp/sse/message)                                                       *)
(***************************************************************************)
CfSessionTimeout == 600000    \* setTimeout(cleanupSession, 10 * 60 * 1000)

\* the `sessions` field of a newly constructed handler
NewCfHandler == [x \in {} |-> [createdAt |-> 0, lastActivity |-> 0]]

\* processJsonRpcMessage(message, c) of this handler
CfProcessJsonRpcMessage(message) ==
    IF ~message.truthy \/ message.jsonrpc # "2.0"
    THEN ErrorObject(OrNull(message.id), "InvalidRequest")
    ELSE IF message.id = "absent"
    THEN NoResponse
    ELSE CASE message.method = "initialize" -> Result(message.id, FALSE)
           [] message.method = "tools/list" -> Result(message.id, FALSE)
           [] message.method = "tools/call" ->
                IF message.params # "full"
                THEN ErrorObject(message.id, "InvalidParams")
                ELSE Result(message.id, ~callTool(message.tool).success)
           [] message.method = "ping"       -> Result(message.id, FALSE)
           [] OTHER -> ErrorObject(message.id, "MethodNotFound")

\* writer.write(event) on a stream: fails once the stream is closed or aborted
CanWrite(stream) == stream.writer = "open" /\ ~stream.aborted

\* handleSSEMessage(c) run by `handler` (its sessions map).  sessionId is
\* 0 when the query has none.  Gives the HTTP status, the handler's
\* sessions afterwards and the stream of the session afterwards.
CfHandleSSEMessage(handler, streams, t, sessionId, parses, message) ==
    IF sessionId = 0
    THEN [status |-> 400, handler |-> handler, streams |-> streams, written |-> NoResponse]
    ELSE IF sessionId \notin DOMAIN handler
    THEN [status |-> 404, handler |-> handler, streams |-> streams, written |-> NoResponse]
    ELSE LET touched == [handler EXCEPT ![sessionId].lastActivity = t]
         IN  IF ~parses
             THEN [status |-> 500, handler |-> touched, streams |-> streams,
                   written |-> NoResponse]
             ELSE LET response == CfProcessJsonRpcMessage(message)
                  IN  IF response = NoResponse
                      THEN [status |-> 202, handler |-> touched, streams |-> streams,
                            written |-> NoResponse]
                      ELSE IF CanWrite(streams[sessionId])
                      THEN [status |-> 202, handler |-> touched,
                            streams |-> [streams EXCEPT ![sessionId].events =
                                            Append(@, [type |-> "message", data |-> response])],
                            written |-> response]
                      ELSE [status |-> 500, handler |-> touched, streams |-> streams,
                            written |-> NoResponse]

NoCf == [op |-> None, status |-> 0, sessionId |-> 0, parses |-> FALSE,
         request |-> FalsyMessage, written |-> NoResponse]

InitCf ==
    /\ cfHandlers = <<>>
    /\ cfStreams = <<>>
    /\ cfLast = NoCf

\* GET /mcp/sse: the route constructs a handler and calls handleSSEConnection
CfConnect(tokenOk) ==
    /\ Len(cfHandlers) < MaxCfHandlers
    /\ IF ~tokenOk
       THEN /\ cfHandlers' = Append(cfHandlers, NewCfHandler)
            /\ cfLast' = [NoCf EXCEPT !.op = "connect", !.status = 401]
            /\ UNCHANGED cfStreams
       ELSE LET sessionId == Len(cfStreams) + 1
                handler   == NewCfHandler
                stored    == MapSet(handler, sessionId,
                                    [createdAt |-> now, lastActivity |-> now])
            IN  /\ cfHandlers' = Append(cfHandlers, stored)
                /\ cfStreams' = Append(cfStreams,
                       [events |-> <<[type |-> "endpoint", data |-> NoResponse]>>,
                        writer |-> "open", aborted |-> FALSE,
                        handler |-> Len(cfHandlers) + 1, due |-> now + CfSessionTimeout])
                /\ cfLast' = [NoCf EXCEPT !.op = "connect", !.status = 200,
                                          !.sessionId = sessionId]
    /\ UNCHANGED <<now, exceptCf>>

\* POST /mcp/sse/message?sessionId=...: the route constructs a handler and
\* calls handleSSEMessage
CfPost(sessionId, parses, message) ==
    /\ Len(cfHandlers) < MaxCfHandlers
    /\ LET handler == NewCfHandler
           out == CfHandleSSEMessage(handler, cfStreams, now, sessionId, parses, message)
       IN  /\ cfHandlers' = Append(cfHandlers, out.handler)
           /\ cfStreams' = out.streams
           /\ cfLast' = [op |-> "post", status |-> out.status,
                         sessionId |-> sessionId,
                         parses |-> parses, request |-> message,
                         written |-> out.written]
    /\ UNCHANGED <<now, exceptCf>>

\* the setTimeout callback of handleSSEConnection: cleanupSession(sessionId)
CfTimeout(sessionId) ==
    /\ sessionId \in DOMAIN cfStreams
    /\ now >= cfStreams[sessionId].due
    /\ LET h == cfStreams[sessionId].handler
       IN  /\ sessionId \in DOMAIN cfHandlers[h]
           /\ cfHandlers' = [cfHandlers EXCEPT ![h] = MapDelete(@, sessionId)]
    /\ cfStreams' = [cfStreams EXCEPT ![sessionId].writer = "closed"]
    /\ UNCHANGED <<now, cfLast, exceptCf>>

\* the client drops the connection of a session
CfClientAbort(sessionId) ==
    /\ sessionId \in DOMAIN cfStreams
    /\ ~cfStreams[sessionId].aborted
    /\ cfStreams' = [cfStreams EXCEPT ![sessionId].aborted = TRUE]
    /\ UNCHANGED <<now, cfHandlers, cfLast, exceptCf>>

TickCf ==
    /\ now < MaxNowCf
    /\ now' = now + CfTick
    /\ UNCHANGED <<rlVars, exceptRL>>

\* the requests a client posts to the message endpoint
CfMessages ==
    {FalsyMessage} \cup
    {Message(TRUE, t, i, m, FALSE, "full", "ok") :
        t \in {"2.0", "1.0"}, i \in {"absent", "n1"},
        m \in {"tools/call", "ping", "foo"}}

(***************************************************************************)
(* Stateless stream: SSETransportSimplified (/mcp/sse/simple)              *)
(***************************************************************************)
HeartbeatInterval == 30000     \* heartbeatInterval of the connection
SlTimeoutMs       == 300000    \* timeout of the connection

\* ids a URL can carry: no id parameter, id=, id=0, id=1, id=a
UrlIds == {"absent", "s_empty", "s_0", "s_1", "s_a"}

\* the number n as an id
NumId(n) == IF n = 0 THEN "n0" ELSE IF n = 1 THEN "n1" ELSE "n_more"

\* writeJsonRpcError(writer, id, code, message, data): the error it writes
writeJsonRpcError(id, code) ==
    ErrorObject(IF id \in {"absent", "null", "n0", "s_empty"} THEN "null" ELSE id, code)

\* processUrlMessage(url, ...) up to the response it builds: the id it uses,
\* the event counter afterwards and the response.
\* url.params is "absent", "invalid" (not JSON), "empty" or "full".
processUrlMessage(url, eventId) ==
    LET given == url.id \notin {"absent", "s_empty"}
        id    == IF given THEN url.id ELSE NumId(eventId)
        next  == IF given THEN eventId ELSE eventId + 1
        response ==
            IF url.method = "absent"
            THEN writeJsonRpcError(id, "InvalidRequest")
            ELSE IF url.params = "invalid"
            THEN writeJsonRpcError(id, "ParseError")
            ELSE CASE url.method = "initialize" -> Result(id, FALSE)
                   [] url.method = "tools/list" -> Result(id, FALSE)
                   [] url.method = "tools/call" ->
                        IF url.params # "full"
                        THEN ErrorObject(id, "InvalidParams")
                        ELSE Result(id, ~callTool(url.tool).success)
                   [] url.method = "ping"       -> Result(id, FALSE)
                   [] OTHER -> ErrorObject(id, "MethodNotFound")
    IN  [id |-> id, eventId |-> next, response |-> response]

NoUrl == [method |-> "absent", params |-> "absent", id |-> "absent", tool |-> "ok"]

NoConn == [state |-> "none", url |-> NoUrl, events |-> <<>>, eventId |-> 0,
           written |-> NoResponse, aborted |-> FALSE, writer |-> "open",
           heartbeat |-> FALSE, nextBeat |-> 0, timeoutAt |-> -1, failed |-> 0]

\* handleMcpSSESession(request, writer, ...) up to the point where its timers
\* are set.  abortAt: the write at which the client is already gone
\* ("connected", "message") or "never".  failed counts the writes that were
\* attempted and rejected.
handleMcpSSESession(url, t, abortAt) ==
    IF abortAt = "connected"
    THEN \* the connected write fails, the error write of the catch fails too
         [NoConn EXCEPT !.state = "failed", !.url = url, !.aborted = TRUE,
                        !.failed = 2]
    ELSE LET c1 == [NoConn EXCEPT !.state = "open", !.url = url,
                                  !.events = <<"connected">>, !.eventId = 1]
         IN  IF url.method = "absent"
             THEN [c1 EXCEPT !.heartbeat = TRUE, !.nextBeat = t + HeartbeatInterval,
                             !.timeoutAt = t + SlTimeoutMs]
             ELSE LET p == processUrlMessage(url, c1.eventId)
                  IN  IF abortAt = "message"
                      THEN \* the message write fails, and so do the error writes of
                           \* the catch of processUrlMessage and of the outer catch
                           [c1 EXCEPT !.state = "failed", !.eventId = p.eventId,
                                      !.aborted = TRUE, !.failed = 3]
                      ELSE [c1 EXCEPT !.events = Append(@, "message"),
                                      !.eventId = p.eventId + 1,
                                      !.written = p.response,
                                      !.heartbeat = TRUE,
                                      !.nextBeat = t + HeartbeatInterval,
                                      !.timeoutAt = t + SlTimeoutMs]

InitSl == slConn = NoConn

\* GET /mcp/sse/simple?method=..&params=..&id=..
SlConnect(url, abortAt) ==
    /\ slConn.state = "none"
    /\ slConn' = handleMcpSSESession(url, now, abortAt)
    /\ UNCHANGED <<now, exceptSl>>

\* the setInterval callback: one heartbeat
SlHeartbeat ==
    /\ slConn.heartbeat
    /\ now >= slConn.nextBeat
    /\ Len(slConn.events) < MaxSlEvents
    /\ IF slConn.writer = "open" /\ ~slConn.aborted
       THEN slConn' = [slConn EXCEPT !.events = Append(@, "heartbeat"),
                                     !.eventId = @ + 1,
                                     !.nextBeat = @ + HeartbeatInterval]
       ELSE slConn' = [slConn EXCEPT !.heartbeat = FALSE, !.eventId = @ + 1,
                                     !.failed = @ + 1]
    /\ UNCHANGED <<now, exceptSl>>

\* the setTimeout callback without writer.close() and clearInterval
SlTimeout_NoCleanup ==
    /\ slConn.timeoutAt >= 0
    /\ now >= slConn.timeoutAt
    /\ IF slConn.writer = "open" /\ ~slConn.aborted
       THEN slConn' = [slConn EXCEPT !.events = Append(@, "timeout"),
                                     !.eventId = @ + 1, !.timeoutAt = -1,
                                     !.state = "closed"]
       ELSE slConn' = [slConn EXCEPT !.eventId = @ + 1, !.heartbeat = FALSE,
                                     !.timeoutAt = -1, !.state = "closed",
                                     !.failed = @ + 1]
    /\ UNCHANGED <<now, exceptSl>>

\* the setTimeout callback: timeout event, close, clearInterval
SlTimeout ==
    /\ slConn.timeoutAt >= 0
    /\ now >= slConn.timeoutAt
    /\ IF slConn.writer = "open" /\ ~slConn.aborted
       THEN slConn' = [slConn EXCEPT !.events = Append(@, "timeout"),
                                     !.eventId = @ + 1, !.writer = "closed",
                                     !.heartbeat = FALSE, !.timeoutAt = -1,
                                     !.state = "closed"]
       ELSE slConn' = [slConn EXCEPT !.eventId = @ + 1, !.heartbeat = FALSE,
                                     !.timeoutAt = -1, !.state = "closed",
                                     !.failed = @ + 1]
    /\ UNCHANGED <<now, exceptSl>>

\* the client drops the connection
SlClientAbort ==
    /\ slConn.state = "open"
    /\ ~slConn.aborted
    /\ slConn' = [slConn EXCEPT !.aborted = TRUE]
    /\ UNCHANGED <<now, exceptSl>>

TickSl ==
    /\ now < MaxNowSl
    /\ now' = now + SlTick
    /\ UNCHANGED <<rlVars, exceptRL>>

Urls ==
    [method : Methods \ {"tools/list"}, params : {"absent", "invalid", "empty", "full"},
     id : UrlIds, tool : ToolResults]

(***************************************************************************)
(* Session registry: SSESessionManager, and the SSETransport of a session  *)
(***************************************************************************)
MAX_SESSIONS     == 100
SESSION_TIMEOUT  == 300000
CLEANUP_INTERVAL == 60000

\* new SSETransport(sessionId): closed, writer; broken: writes to the stream
\* reject (the client is gone).  The event id counter only labels events and
\* is left out.
NewTransport == [closed |-> FALSE, writer |-> "null", broken |-> FALSE]

\* createResponse(corsOrigin): the writer is taken, the endpoint event is sent
createResponse(transport) == [transport EXCEPT !.writer = "open"]

\* sendEvent(type, data): the transport afterwards, whether the event was
\* written and whether the call threw
sendEvent(transport) ==
    IF transport.closed \/ transport.writer = "null"
    THEN [transport |-> transport, wrote |-> FALSE, threw |-> FALSE]
    ELSE IF transport.broken
    THEN [transport |-> [transport EXCEPT !.closed = TRUE], wrote |-> FALSE, threw |-> TRUE]
    ELSE [transport |-> transport, wrote |-> TRUE, threw |-> FALSE]

SessionInfo(id, t, transport) ==
    [id |-> id, createdAt |-> t, lastActivityAt |-> t, transport |-> transport]

\* Map.has / Map.get on the table
HasSession(tbl, id) == \E i \in 1..Len(tbl) : tbl[i].id = id
SessionAt(tbl, id)  == tbl[CHOOSE i \in 1..Len(tbl) : tbl[i].id = id]

\* Map.set: an existing key keeps its position, a new key goes last
SessionsSet(tbl, info) ==
    IF HasSession(tbl, info.id)
    THEN [i \in 1..Len(tbl) |-> IF tbl[i].id = info.id THEN info ELSE tbl[i]]
    ELSE Append(tbl, info)

\* isSessionExpired(sessionInfo)
isSessionExpired(info, t) == (t - info.lastActivityAt) > SESSION_TIMEOUT

\* removeSession that keeps the entry when closing its stream fails
removeSession_KeepsOnCloseFailure(tbl, id) ==
    SelectSeq(tbl, LAMBDA s : s.id # id \/ s.transport.broken)

\* removeSession(sessionId): closes the transport and deletes the entry
removeSession(tbl, id) == SelectSeq(tbl, LAMBDA s : s.id # id)

\* addSession(sessionId, transport, clientInfo)
addSession(tbl, id, transport, t) == SessionsSet(tbl, SessionInfo(id, t, transport))

\* cleanupExpiredSessions that sweeps on every call
cleanupExpiredSessions_NoInterval(tbl, lc, t) ==
    LET gone(s) == isSessionExpired(s, t) \/ s.transport.closed
    IN  [sessions |-> SelectSeq(tbl, LAMBDA s : ~gone(s)),
         lastCleanup |-> t,
         removed |-> {[id |-> tbl[i].id, createdAt |-> tbl[i].createdAt] :
                         i \in {j \in 1..Len(tbl) : gone(tbl[j])}}]

\* cleanupExpiredSessions()
cleanupExpiredSessions(tbl, lc, t) ==
    IF t - lc < CLEANUP_INTERVAL
    THEN [sessions |-> tbl, lastCleanup |-> lc, removed |-> {}]
    ELSE LET gone(s) == isSessionExpired(s, t) \/ s.transport.closed
         IN  [sessions |-> SelectSeq(tbl, LAMBDA s : ~gone(s)),
              lastCleanup |-> t,
              removed |-> {[id |-> tbl[i].id, createdAt |-> tbl[i].createdAt] :
                              i \in {j \in 1..Len(tbl) : gone(tbl[j])}}]

\* position (from 0) of entry i after the stable sort by createdAt, reversed
SortRank_Descending(tbl, i) ==
    Cardinality({j \in 1..Len(tbl) :
                    \/ tbl[j].createdAt > tbl[i].createdAt
                    \/ (tbl[j].createdAt = tbl[i].createdAt /\ j < i)})

\* position (from 0) of entry i after
\* Array.from(entries).sort((a, b) => a.createdAt - b.createdAt), a stable sort
SortRank(tbl, i) ==
    Cardinality({j \in 1..Len(tbl) :
                    \/ tbl[j].createdAt < tbl[i].createdAt
                    \/ (tbl[j].createdAt = tbl[i].createdAt /\ j < i)})

\* cleanupOldestSessions(count): sort, slice(0, count), remove each
cleanupOldestSessions(tbl, count) ==
    LET picked  == {j \in 1..Len(tbl) : SortRank(tbl, j) < count}
        victims == {tbl[j].id : j \in picked}
    IN  [sessions |-> SelectSeq(tbl, LAMBDA s : s.id \notin victims),
         removed  |-> {[id |-> tbl[j].id, createdAt |-> tbl[j].createdAt] : j \in picked}]

\* createSession(clientInfo): sweeps, evicts at capacity, returns a fresh id;
\* it inserts nothing
createSession(tbl, lc, t) ==
    LET swept   == cleanupExpiredSessions(tbl, lc, t)
        evicted == IF Len(swept.sessions) >= MAX_SESSIONS
                   THEN cleanupOldestSessions(swept.sessions, MAX_SESSIONS \div 10)
                   ELSE [sessions |-> swept.sessions, removed |-> {}]
    IN  [sessions |-> evicted.sessions, lastCleanup |-> swept.lastCleanup,
         sizeBefore |-> Len(tbl), afterSweep |-> Len(swept.sessions),
         swept |-> swept.removed, evicted |-> evicted.removed]

\* SSETransport.close() step by step: closed is set, then the close event is
\* handed to sendEvent, then the writer is closed and dropped (unless closing
\* it rejects).  wroteClose: the close event reached the stream
closeSteps(transport) ==
    IF transport.closed
    THEN [transport |-> transport, wroteClose |-> FALSE]
    ELSE LET marked == [transport EXCEPT !.closed = TRUE]
         IN  IF marked.writer = "null"
             THEN [transport |-> marked, wroteClose |-> FALSE]
             ELSE LET sent == sendEvent(marked)
                  IN  [transport |-> [sent.transport EXCEPT
                                         !.writer = IF transport.broken THEN @ ELSE "null"],
                       wroteClose |-> sent.wrote]

\* SSETransport.close(): the transport afterwards
close(transport) == closeSteps(transport).transport

\* getSession without the update of lastActivityAt
getSession_NoRefresh(tbl, id, t) ==
    IF ~HasSession(tbl, id)
    THEN [sessions |-> tbl, found |-> FALSE, closed |-> {}]
    ELSE IF isSessionExpired(SessionAt(tbl, id), t)
    THEN [sessions |-> removeSession(tbl, id), found |-> FALSE,
          closed |-> {close(SessionAt(tbl, id).transport)}]
    ELSE [sessions |-> tbl, found |-> TRUE, closed |-> {}]

\* getSession(sessionId): the table afterwards, whether a transport is
\* returned, and the transports removeSession has called close() on
getSession(tbl, id, t) ==
    IF ~HasSession(tbl, id)
    THEN [sessions |-> tbl, found |-> FALSE, closed |-> {}]
    ELSE IF isSessionExpired(SessionAt(tbl, id), t)
    THEN [sessions |-> removeSession(tbl, id), found |-> FALSE,
          closed |-> {close(SessionAt(tbl, id).transport)}]
    ELSE [sessions |-> SessionsSet(tbl, [SessionAt(tbl, id) EXCEPT !.lastActivityAt = t]),
          found |-> TRUE, closed |-> {}]

\* sendHeartbeatToSession(sessionId)
sendHeartbeatToSession(tbl, id, t) ==
    IF ~HasSession(tbl, id) \/ isSessionExpired(SessionAt(tbl, id), t)
    THEN [sessions |-> tbl, ok |-> FALSE]
    ELSE LET info == SessionAt(tbl, id)
             sent == sendEvent(info.transport)
         IN  IF sent.threw
             THEN [sessions |-> removeSession(tbl, id), ok |-> FALSE]
             ELSE [sessions |-> SessionsSet(tbl, [info EXCEPT !.lastActivityAt = t]),
                   ok |-> TRUE]

\* broadcastToAll that leaves a session whose send throws in the table
broadcastToAll_KeepsFailed(tbl, t) ==
    LET live(s)   == ~isSessionExpired(s, t) /\ ~s.transport.closed
        throws(s) == live(s) /\ sendEvent(s.transport).threw
    IN  [sessions |-> tbl,
         successCount |-> Cardinality({i \in 1..Len(tbl) :
                                          live(tbl[i]) /\ ~throws(tbl[i])}),
         sent   |-> {tbl[i].id : i \in {j \in 1..Len(tbl) : live(tbl[j])}},
         wrote  |-> {tbl[i].id : i \in {j \in 1..Len(tbl) :
                                           live(tbl[j]) /\ sendEvent(tbl[j].transport).wrote}},
         threw  |-> FALSE]

\* broadcastToAll(message): sessions whose send throws are removed.  sent:
\* the sessions sendMessage was called on; wrote: those whose stream took
\* the event; threw: whether the call itself rejects
broadcastToAll(tbl, t) ==
    LET live(s)   == ~isSessionExpired(s, t) /\ ~s.transport.closed
        throws(s) == live(s) /\ sendEvent(s.transport).threw
    IN  [sessions |-> SelectSeq(tbl, LAMBDA s : ~throws(s)),
         successCount |-> Cardinality({i \in 1..Len(tbl) :
                                          live(tbl[i]) /\ ~throws(tbl[i])}),
         sent   |-> {tbl[i].id : i \in {j \in 1..Len(tbl) : live(tbl[j])}},
         wrote  |-> {tbl[i].id : i \in {j \in 1..Len(tbl) :
                                           live(tbl[j]) /\ sendEvent(tbl[j].transport).wrote}},
         threw  |-> FALSE]

\* the table after Prefill connects at time 0: at capacity
Prefill == MAX_SESSIONS
PrefilledTable ==
    [i \in 1..Prefill |-> SessionInfo(i, 0, createResponse(NewTransport))]

\* the entry of a session id in the table, if it has one
EntryOf(tbl, id) ==
    IF HasSession(tbl, id)
    THEN [present |-> TRUE, info |-> SessionAt(tbl, id)]
    ELSE [present |-> FALSE, info |-> SessionInfo(0, 0, NewTransport)]

\* the entries of all sessions but id, in table order
OtherEntries(tbl, id) == SelectSeq(tbl, LAMBDA s : s.id # id)

\* of a getSession call: at, the time of the call; before, after: the entry
\* of the id before and after it; closed: the transports close() was called
\* on; othersKept: the entries of the other ids are as they were
NoSess == [op |-> None, status |-> 0, sessionId |-> 0, parses |-> FALSE,
           request |-> FalsyMessage, written |-> NoResponse, delivered |-> FALSE,
           sizeBefore |-> 0, afterSweep |-> 0, swept |-> {}, evicted |-> {},
           at |-> 0, before |-> EntryOf(<<>>, 0), after |-> EntryOf(<<>>, 0),
           closed |-> {}, othersKept |-> TRUE,
           idsBefore |-> {}, idsAfter |-> {}, eligible |-> {}, sent |-> {},
           wrote |-> {}, count |-> 0, threw |-> FALSE, lcBefore |-> 0,
           handed |-> NewTransport]

\* the ids in the table
IdsOf(tbl) == {tbl[i].id : i \in 1..Len(tbl)}

\* the sessions of the table afterwards are entries of the table before,
\* unchanged and in their order
KeptAsTheyWere(before, after) ==
    LET ids == IdsOf(after)
    IN  after = SelectSeq(before, LAMBDA x : x.id \in ids)

\* the sessions that are neither idle for longer than the timeout nor closed
Eligible(tbl, t) ==
    {tbl[i].id : i \in {j \in 1..Len(tbl) :
                            /\ t - tbl[j].lastActivityAt <= SESSION_TIMEOUT
                            /\ ~tbl[j].transport.closed}}

InitSess ==
    /\ sessions = PrefilledTable
    /\ lastCleanup = 0
    /\ uuidCount = Prefill
    /\ sessLast = NoSess

CanHandOut == uuidCount < Prefill + MaxNewSessions

\* McpHandlerSSE.handleSSEConnection: createSession, new SSETransport,
\* addSession, createResponse
HandleSSEConnection ==
    /\ CanHandOut
    /\ LET made == createSession(sessions, lastCleanup, now)
           id   == uuidCount + 1
       IN  /\ sessions' = SessionsSet(addSession(made.sessions, id, NewTransport, now),
                                      SessionInfo(id, now, createResponse(NewTransport)))
           /\ lastCleanup' = made.lastCleanup
           /\ uuidCount' = id
           /\ sessLast' = [NoSess EXCEPT !.op = "connect", !.status = 200,
                                         !.sessionId = id,
                                         !.sizeBefore = made.sizeBefore,
                                         !.afterSweep = made.afterSweep,
                                         !.swept = made.swept,
                                         !.evicted = made.evicted]
    /\ UNCHANGED <<now, exceptSess>>

\* a call of createSession on its own
CreateSession ==
    /\ CanHandOut
    /\ LET made == createSession(sessions, lastCleanup, now)
       IN  /\ sessions' = made.sessions
           /\ lastCleanup' = made.lastCleanup
           /\ uuidCount' = uuidCount + 1
           /\ sessLast' = [NoSess EXCEPT !.op = "createSession",
                                         !.sessionId = uuidCount + 1,
                                         !.sizeBefore = made.sizeBefore,
                                         !.afterSweep = made.afterSweep,
                                         !.swept = made.swept,
                                         !.evicted = made.evicted]
    /\ UNCHANGED <<now, exceptSess>>

\* a call of addSession on its own, with a new id or with one already in use
AddSession(fresh) ==
    /\ fresh => CanHandOut
    /\ LET id == IF fresh THEN uuidCount + 1 ELSE 1
       IN  /\ sessions' = addSession(sessions, id, NewTransport, now)
           /\ uuidCount' = IF fresh THEN id ELSE uuidCount
           /\ sessLast' = [NoSess EXCEPT !.op = "addSession", !.sessionId = id,
                                         !.sizeBefore = Len(sessions)]
    /\ UNCHANGED <<now, lastCleanup, exceptSess>>

GetSession(id) ==
    /\ LET got == getSession(sessions, id, now)
       IN  /\ sessions' = got.sessions
           /\ sessLast' = [NoSess EXCEPT !.op = "getSession", !.sessionId = id,
                                         !.status = IF got.found THEN 200 ELSE 404,
                                         !.sizeBefore = Len(sessions),
                                         !.at = now,
                                         !.before = EntryOf(sessions, id),
                                         !.after = EntryOf(got.sessions, id),
                                         !.closed = got.closed,
                                         !.othersKept =
                                             (OtherEntries(got.sessions, id) =
                                              OtherEntries(sessions, id))]
    /\ UNCHANGED <<now, lastCleanup, uuidCount, exceptSess>>

RemoveSession(id) ==
    /\ sessions' = removeSession(sessions, id)
    /\ sessLast' = [NoSess EXCEPT !.op = "removeSession", !.sessionId = id,
                                  !.sizeBefore = Len(sessions),
                                  !.before = EntryOf(sessions, id),
                                  !.after = EntryOf(removeSession(sessions, id), id),
                                  !.closed = IF HasSession(sessions, id)
                                             THEN {close(SessionAt(sessions, id).transport)}
                                             ELSE {},
                                  !.delivered =
                                      /\ HasSession(sessions, id)
                                      /\ closeSteps(SessionAt(sessions, id).transport).wroteClose,
                                  !.idsBefore = IdsOf(sessions),
                                  !.idsAfter = IdsOf(removeSession(sessions, id)),
                                  !.othersKept =
                                      (OtherEntries(removeSession(sessions, id), id) =
                                       OtherEntries(sessions, id))]
    /\ UNCHANGED <<now, lastCleanup, uuidCount, exceptSess>>

Heartbeat(id) ==
    /\ LET beat == sendHeartbeatToSession(sessions, id, now)
       IN  /\ sessions' = beat.sessions
           /\ sessLast' = [NoSess EXCEPT !.op = "heartbeat", !.sessionId = id,
                                         !.delivered = beat.ok,
                                         !.sizeBefore = Len(sessions)]
    /\ UNCHANGED <<now, lastCleanup, uuidCount, exceptSess>>

BroadcastToAll ==
    /\ LET sent == broadcastToAll(sessions, now)
       IN  /\ sessions' = sent.sessions
           /\ sessLast' = [NoSess EXCEPT !.op = "broadcastToAll",
                                         !.sizeBefore = Len(sessions),
                                         !.at = now,
                                         !.idsBefore = IdsOf(sessions),
                                         !.idsAfter = IdsOf(sent.sessions),
                                         !.eligible = Eligible(sessions, now),
                                         !.sent = sent.sent,
                                         !.wrote = sent.wrote,
                                         !.count = sent.successCount,
                                         !.threw = sent.threw,
                                         !.othersKept =
                                             KeptAsTheyWere(sessions, sent.sessions)]
    /\ UNCHANGED <<now, lastCleanup, uuidCount, exceptSess>>

CleanupExpired ==
    /\ LET swept == cleanupExpiredSessions(sessions, lastCleanup, now)
       IN  /\ sessions' = swept.sessions
           /\ lastCleanup' = swept.lastCleanup
           /\ sessLast' = [NoSess EXCEPT !.op = "cleanup", !.swept = swept.removed,
                                         !.sizeBefore = Len(sessions),
                                         !.at = now,
                                         !.lcBefore = lastCleanup,
                                         !.idsBefore = IdsOf(sessions),
                                         !.idsAfter = IdsOf(swept.sessions),
                                         !.eligible = Eligible(sessions, now),
                                         !.count = Cardinality(swept.removed),
                                         !.othersKept =
                                             KeptAsTheyWere(sessions, swept.sessions)]
    /\ UNCHANGED <<now, uuidCount, exceptSess>>

\* the client of session id goes away: writes to its stream reject from now on
TransportBreak(id) ==
    /\ HasSession(sessions, id)
    /\ SessionAt(sessions, id).transport.writer = "open"
    /\ ~SessionAt(sessions, id).transport.broken
    /\ sessions' = SessionsSet(sessions,
                      [SessionAt(sessions, id) EXCEPT !.transport.broken = TRUE])
    /\ UNCHANGED <<now, lastCleanup, uuidCount, sessLast, exceptSess>>

TickSess ==
    /\ now < MaxNowSess
    /\ now' = now + SessTick
    /\ UNCHANGED <<rlVars, exceptRL>>

\* the session id single-session operations are tried on: the first of the
\* initial table
ProbeIds == {1}

(***************************************************************************)
(* Stateful stream: McpHandlerSSE.handleSSEMessage                         *)
(***************************************************************************)
\* createJsonRpcError(id, code, message, data) of McpHandlerSSE
SseCreateJsonRpcError(id, code) == ErrorObject(OrNull(id), code)

\* isValidJsonRpcMessage(message)
isValidJsonRpcMessage(message) ==
    /\ message.truthy
    /\ message.jsonrpc = "2.0"
    /\ (message.method # "absent" \/ message.hasResult)

\* handleSSEMessage from the format check to the response it has to send:
\* "send" with the response, "silent" (nothing to send) or "throw" (a
\* TypeError: message.id of the null message, params.clientInfo of
\* initialize without it)
SseDispatch(message) ==
    IF ~isValidJsonRpcMessage(message)
    THEN IF ~message.truthy
         THEN [outcome |-> "throw", response |-> NoResponse]
         ELSE [outcome |-> "send",
               response |-> SseCreateJsonRpcError(message.id, "InvalidRequest")]
    ELSE CASE message.method = "initialize" ->
                IF message.params = "full"
                THEN [outcome |-> "send", response |-> Result(message.id, FALSE)]
                ELSE [outcome |-> "throw", response |-> NoResponse]
           [] message.method = "tools/list" ->
                [outcome |-> "send", response |-> Result(message.id, FALSE)]
           [] message.method = "tools/call" ->
                IF message.params # "full"
                THEN [outcome |-> "send",
                      response |-> SseCreateJsonRpcError(message.id, "InvalidParams")]
                ELSE [outcome |-> "send",
                      response |-> Result(message.id, ~callTool(message.tool).success)]
           [] message.method = "notifications/initialized" ->
                [outcome |-> "silent", response |-> NoResponse]
           [] message.method = "ping" ->
                [outcome |-> "send", response |-> Result(message.id, FALSE)]
           [] OTHER ->
                [outcome |-> "send",
                 response |-> SseCreateJsonRpcError(message.id, "MethodNotFound")]

\* handleSSEMessage(c): sessionId 0 stands for a missing route parameter;
\* parses: c.req.json() succeeds.  Gives the HTTP status, the table
\* afterwards, the response handed to sendMessage and whether it was written.
handleSSEMessage(tbl, t, sessionId, parses, message) ==
    IF sessionId = 0
    THEN [status |-> 400, sessions |-> tbl, written |-> NoResponse, delivered |-> FALSE]
    ELSE LET got == getSession(tbl, sessionId, t)
         IN  IF ~got.found
             THEN [status |-> 404, sessions |-> got.sessions, written |-> NoResponse,
                   delivered |-> FALSE]
             ELSE LET info == SessionAt(got.sessions, sessionId)
                      todo == IF ~parses
                              THEN [outcome |-> "send",
                                    response |-> SseCreateJsonRpcError("null", "ParseError")]
                              ELSE SseDispatch(message)
                      sent == sendEvent(info.transport)
                  IN  CASE todo.outcome = "throw" ->
                             [status |-> 500, sessions |-> got.sessions,
                              written |-> NoResponse, delivered |-> FALSE]
                        [] todo.outcome = "silent" ->
                             [status |-> 204, sessions |-> got.sessions,
                              written |-> NoResponse, delivered |-> FALSE]
                        [] OTHER ->
                             [status |-> IF sent.threw THEN 500 ELSE 204,
                              sessions |-> SessionsSet(got.sessions,
                                              [info EXCEPT !.transport = sent.transport]),
                              written |-> todo.response, delivered |-> sent.wrote]

\* POST /mcp/sse/experimental/:sessionId/messages
HandleSSEMessage(sessionId, parses, message) ==
    /\ LET out == handleSSEMessage(sessions, now, sessionId, parses, message)
       IN  /\ sessions' = out.sessions
           /\ sessLast' = [NoSess EXCEPT !.op = "message", !.status = out.status,
                                         !.sessionId = sessionId, !.parses = parses,
                                         !.request = message, !.written = out.written,
                                         !.delivered = out.delivered,
                                         !.handed =
                                             IF getSession(sessions, sessionId, now).found
                                             THEN SessionAt(sessions, sessionId).transport
                                             ELSE NewTransport]
    /\ UNCHANGED <<now, lastCleanup, uuidCount, exceptSess>>

\* the messages a client posts to a session
SseMessages ==
    {FalsyMessage} \cup
    {Message(TRUE, "2.0", i, m, FALSE, p, "ok") :
        i \in {"absent", "n0", "n1"},
        m \in {"initialize", "tools/call", "ping", "notifications/initialized", "foo"},
        p \in {"absent", "full"}} \cup
    {Message(TRUE, "1.0", i, "ping", FALSE, "absent", "ok") : i \in {"absent", "n0"}} \cup
    {Message(TRUE, "2.0", "n1", "absent", r, "absent", "ok") : r \in BOOLEAN}

\* the posts a client makes: a session id, whether the body is JSON, the message
SsePosts ==
    {<<sid, TRUE, m>> : sid \in ProbeIds, m \in SseMessages} \cup
    {<<sid, FALSE, FalsyMessage>> : sid \in ProbeIds} \cup
    {<<0, TRUE, Message(TRUE, "2.0", "n1", "ping", FALSE, "absent", "ok")>>}

(***************************************************************************)
(* Cache manager: CacheManager over caches.default                         *)
(***************************************************************************)
\* what fetchFunction can resolve to: two objects, the number 0, null, undefined
Payloads == {"obj1", "obj2", "zero", "null", "undefined"}

\* the body of  new Response(JSON.stringify(data)) : JSON.stringify(undefined)
\* is undefined and gives an empty body
Stringify(data) ==
    CASE data = "obj1"      -> "{\"a\":1}"
      [] data = "obj2"      -> "{\"a\":2}"
      [] data = "zero"      -> "0"
      [] data = "null"      -> "null"
      [] data = "undefined" -> ""

\* response.json(): "throws" on a body that is not JSON
ParseJson(body) ==
    CASE body = "{\"a\":1}" -> "obj1"
      [] body = "{\"a\":2}" -> "obj2"
      [] body = "0"         -> "zero"
      [] body = "null"      -> "null"
      [] OTHER              -> "throws"

\* new Date(t).toUTCString() read back by new Date(..).getTime(): whole seconds
DateHeader(t) == (t \div 1000) * 1000

NoEntry == [present |-> FALSE, date |-> 0, maxAge |-> 0, body |-> ""]

\* get(key, options): the value returned ("null" is the JavaScript null) and
\* the store afterwards
cacheGet(cfg, store, t) ==
    IF ~cfg.enabled THEN [value |-> "null", store |-> store]
    ELSE IF ~store.present THEN [value |-> "null", store |-> store]
    ELSE IF (t - store.date) > store.maxAge * 1000
    THEN [value |-> "null", store |-> NoEntry]
    ELSE IF ParseJson(store.body) = "throws"
    THEN [value |-> "null", store |-> store]
    ELSE [value |-> ParseJson(store.body), store |-> store]

\* set(key, data, ttl, options); ttl 0 stands for an omitted ttl as well
cacheSet(cfg, store, t, data, ttl) ==
    IF ~cfg.enabled THEN store
    ELSE [present |-> TRUE, date |-> DateHeader(t),
          maxAge |-> IF ttl = 0 THEN cfg.defaultTtl ELSE ttl,
          body |-> Stringify(data)]

\* getOrSet(key, fetchFunction, ttl, options), fetched being what
\* fetchFunction resolves to when it is invoked
getOrSet(cfg, store, t, fetched, ttl) ==
    LET cached == cacheGet(cfg, store, t)
    IN  IF cached.value # "null"
        THEN [value |-> cached.value, store |-> cached.store, invoked |-> FALSE]
        ELSE [value |-> fetched, store |-> cacheSet(cfg, cached.store, t, fetched, ttl),
              invoked |-> TRUE]

NoCall == [made |-> FALSE, at |-> 0, ttl |-> 0, value |-> "undefined", invoked |-> FALSE]
NoCache == [this |-> NoCall, prev |-> NoCall]

\* a direct call: op "get" or "set"; for a get the value returned, whether an
\* entry was stored before it, when that entry was written and its max-age;
\* for a set the data; prev: the direct call before it, if no other call
\* came between
NoOp == [op |-> None, at |-> 0, value |-> "undefined", data |-> "undefined",
         hadEntry |-> FALSE, writtenAt |-> 0, maxAge |-> 0,
         prevOp |-> None, prevAt |-> 0, prevData |-> "undefined"]

InitCache(enabled) ==
    /\ cacheConfig \in {[enabled |-> e, defaultTtl |-> CacheDefaultTtl] : e \in enabled}
    /\ cacheStore = NoEntry
    /\ fetchCount = 0
    /\ cacheLast = NoCache
    /\ cacheWrittenAt = 0
    /\ cacheOp = NoOp

\* one call of getOrSet on the key
GetOrSet(fetched, ttl) ==
    /\ fetchCount < MaxFetches
    /\ LET out == getOrSet(cacheConfig, cacheStore, now, fetched, ttl)
       IN  /\ cacheStore' = out.store
           /\ fetchCount' = IF out.invoked THEN fetchCount + 1 ELSE fetchCount
           /\ cacheLast' = [this |-> [made |-> TRUE, at |-> now,
                                      ttl |-> IF ttl = 0 THEN cacheConfig.defaultTtl ELSE ttl,
                                      value |-> out.value, invoked |-> out.invoked],
                            prev |-> cacheLast.this]
           /\ cacheWrittenAt' = IF out.invoked /\ cacheConfig.enabled
                                 THEN now ELSE cacheWrittenAt
           /\ cacheOp' = NoOp
    /\ UNCHANGED <<now, cacheConfig, exceptCache>>

\* one call of get on the key
CacheGet ==
    /\ LET out == cacheGet(cacheConfig, cacheStore, now)
       IN  /\ cacheStore' = out.store
           /\ cacheOp' = [NoOp EXCEPT !.op = "get", !.at = now, !.value = out.value,
                                      !.hadEntry = cacheStore.present,
                                      !.writtenAt = cacheWrittenAt,
                                      !.maxAge = cacheStore.maxAge,
                                      !.prevOp = cacheOp.op, !.prevAt = cacheOp.at,
                                      !.prevData = cacheOp.data]
    /\ UNCHANGED <<now, cacheConfig, fetchCount, cacheLast, cacheWrittenAt, exceptCache>>

\* one call of set on the key
CacheSet(data, ttl) ==
    /\ cacheStore' = cacheSet(cacheConfig, cacheStore, now, data, ttl)
    /\ cacheWrittenAt' = IF cacheConfig.enabled THEN now ELSE cacheWrittenAt
    /\ cacheOp' = [NoOp EXCEPT !.op = "set", !.at = now, !.data = data]
    /\ cacheLast' = NoCache
    /\ UNCHANGED <<now, cacheConfig, fetchCount, exceptCache>>

\* delete(key, options)
CacheDelete ==
    /\ cacheStore.present
    /\ cacheStore' = NoEntry
    /\ cacheLast' = NoCache
    /\ cacheOp' = NoOp
    /\ UNCHANGED <<now, cacheConfig, fetchCount, cacheWrittenAt, exceptCache>>

TickCache ==
    /\ now < MaxNowCache
    /\ now' = now + CacheTick
    /\ UNCHANGED <<rlVars, exceptRL>>

(***************************************************************************)
(* Cache manager over a store that can fail                                *)
(*                                                                         *)
(* faults: the operations of caches.default (match, put, delete) that      *)
(* reject during the call.  `threw` tells whether the call rejects.        *)
(***************************************************************************)
StoreOps == {"match", "put", "delete"}

\* delete(key, options)
cacheDeleteWith(faults, store) ==
    IF "delete" \in faults
    THEN [ok |-> FALSE, store |-> store, threw |-> FALSE]
    ELSE [ok |-> store.present, store |-> NoEntry, threw |-> FALSE]

\* get(key, options)
cacheGetWith(faults, cfg, store, t) ==
    IF ~cfg.enabled THEN [value |-> "null", store |-> store, threw |-> FALSE]
    ELSE IF "match" \in faults THEN [value |-> "null", store |-> store, threw |-> FALSE]
    ELSE IF ~store.present THEN [value |-> "null", store |-> store, threw |-> FALSE]
    ELSE IF (t - store.date) > store.maxAge * 1000
    THEN [value |-> "null", store |-> cacheDeleteWith(faults, store).store,
          threw |-> FALSE]
    ELSE IF ParseJson(store.body) = "throws"
    THEN [value |-> "null", store |-> store, threw |-> FALSE]
    ELSE [value |-> ParseJson(store.body), store |-> store, threw |-> FALSE]

\* set without its catch
cacheSetWith_NoCatch(faults, cfg, store, t, data, ttl) ==
    IF ~cfg.enabled THEN [ok |-> FALSE, store |-> store, threw |-> FALSE]
    ELSE IF "put" \in faults THEN [ok |-> FALSE, store |-> store, threw |-> TRUE]
    ELSE [ok |-> TRUE, store |-> cacheSet(cfg, store, t, data, ttl), threw |-> FALSE]

\* set(key, data, ttl, options)
cacheSetWith(faults, cfg, store, t, data, ttl) ==
    IF ~cfg.enabled THEN [ok |-> FALSE, store |-> store, threw |-> FALSE]
    ELSE IF "put" \in faults THEN [ok |-> FALSE, store |-> store, threw |-> FALSE]
    ELSE [ok |-> TRUE, store |-> cacheSet(cfg, store, t, data, ttl), threw |-> FALSE]

\* getOrSet(key, fetchFunction, ttl, options); fetchOk: fetchFunction resolves
\* (to fetched) rather than rejects
getOrSetWith(faults, cfg, store, t, fetchOk, fetched, ttl) ==
    LET cached == cacheGetWith(faults, cfg, store, t)
    IN  IF cached.threw
        THEN [value |-> "undefined", store |-> cached.store, invoked |-> FALSE,
              threw |-> TRUE]
        ELSE IF cached.value # "null"
        THEN [value |-> cached.value, store |-> cached.store, invoked |-> FALSE,
              threw |-> FALSE]
        ELSE IF ~fetchOk
        THEN [value |-> "undefined", store |-> cached.store, invoked |-> TRUE,
              threw |-> TRUE]
        ELSE LET written == cacheSetWith(faults, cfg, cached.store, t, fetched, ttl)
             IN  [value |-> IF written.threw THEN "undefined" ELSE fetched,
                  store |-> written.store, invoked |-> TRUE,
                  threw |-> written.threw]

\* TemplateTool.listTemplates / getTemplate: getOrSet around the backend
\* call, inside the tool's try/catch; backendOk: the backend answers success
listTemplates(faults, cfg, store, t, backendOk, data) ==
    LET got == getOrSetWith(faults, cfg, store, t, backendOk, data, cfg.defaultTtl)
    IN  [success |-> ~got.threw, value |-> got.value, store |-> got.store,
         invoked |-> got.invoked]

NoFx == [op |-> None, faults |-> {}, value |-> "undefined", ok |-> FALSE,
         threw |-> FALSE, invoked |-> FALSE, fetched |-> "undefined",
         backendOk |-> FALSE, success |-> FALSE,
         storeBefore |-> NoEntry, storeAfter |-> NoEntry]

InitFx == cacheFx = NoFx

\* what an operation on the failing store leaves alone besides the clock
exceptStore == <<cacheConfig, fetchCount, cacheLast, cacheWrittenAt, cacheOp,
                 rlVars, gateVars, syncVars, cfVars, slVars, sessVars, dispVars,
                 toolVars, httpVars, runVars>>

FxGet(faults) ==
    /\ LET out == cacheGetWith(faults, cacheConfig, cacheStore, now)
       IN  /\ cacheStore' = out.store
           /\ cacheFx' = [NoFx EXCEPT !.op = "get", !.faults = faults,
                                      !.value = out.value, !.threw = out.threw,
                                      !.storeBefore = cacheStore,
                                      !.storeAfter = out.store]
    /\ UNCHANGED <<now, exceptStore>>

FxSet(faults, data, ttl) ==
    /\ LET out == cacheSetWith(faults, cacheConfig, cacheStore, now, data, ttl)
       IN  /\ cacheStore' = out.store
           /\ cacheFx' = [NoFx EXCEPT !.op = "set", !.faults = faults,
                                      !.ok = out.ok, !.threw = out.threw,
                                      !.storeBefore = cacheStore,
                                      !.storeAfter = out.store]
    /\ UNCHANGED <<now, exceptStore>>

FxDelete(faults) ==
    /\ LET out == cacheDeleteWith(faults, cacheStore)
       IN  /\ cacheStore' = out.store
           /\ cacheFx' = [NoFx EXCEPT !.op = "delete", !.faults = faults,
                                      !.ok = out.ok, !.threw = out.threw,
                                      !.storeBefore = cacheStore,
                                      !.storeAfter = out.store]
    /\ UNCHANGED <<now, exceptStore>>

FxGetOrSet(faults, fetched, ttl) ==
    /\ LET out == getOrSetWith(faults, cacheConfig, cacheStore, now, TRUE, fetched, ttl)
       IN  /\ cacheStore' = out.store
           /\ cacheFx' = [NoFx EXCEPT !.op = "getOrSet", !.faults = faults,
                                      !.value = out.value, !.threw = out.threw,
                                      !.invoked = out.invoked, !.fetched = fetched,
                                      !.storeBefore = cacheStore,
                                      !.storeAfter = out.store]
    /\ UNCHANGED <<now, exceptStore>>

\* a list_email_templates call
FxListTemplates(faults, backendOk, data) ==
    /\ LET out == listTemplates(faults, cacheConfig, cacheStore, now, backendOk, data)
       IN  /\ cacheStore' = out.store
           /\ cacheFx' = [NoFx EXCEPT !.op = "listTemplates", !.faults = faults,
                                      !.value = out.value, !.invoked = out.invoked,
                                      !.fetched = data, !.backendOk = backendOk,
                                      !.success = out.success,
                                      !.storeBefore = cacheStore,
                                      !.storeAfter = out.store]
    /\ UNCHANGED <<now, exceptStore>>

(***************************************************************************)
(* Tool registry: ToolRegistry.callTool and its argument validation        *)
(*                                                                         *)
(* A value is known by its JSON kind; "enumString" is a string that is a   *)
(* member of the enum of the field it is given to, "string" one that is    *)
(* not such a member; "undefined" is a field that is not supplied.         *)
(***************************************************************************)
ValueKinds == {"undefined", "null", "string", "enumString", "number", "boolean",
               "object", "array"}

\* the JavaScript typeof operator
TypeOf(value) ==
    CASE value \in {"string", "enumString"}      -> "string"
      [] value \in {"null", "object", "array"}   -> "object"
      [] OTHER                                   -> value

FieldSchema(name, type, hasEnum) == [name |-> name, type |-> type, enum |-> hasEnum]

\* the tools registered by registerTools, with inputSchema.properties (in
\* declaration order) and inputSchema.required of each
RegisteredTools == {"send_email", "list_email_templates", "get_email_template",
                    "get_email_status"}

InputSchema(name) ==
    CASE name = "send_email" ->
           [properties |-> << FieldSchema("to", "string", FALSE),
                              FieldSchema("templateData", "object", FALSE),
                              FieldSchema("async", "boolean", FALSE),
                              FieldSchema("priority", "string", TRUE) >>,
            required |-> << "to" >>]
      [] name = "get_email_template" ->
           [properties |-> << FieldSchema("name", "string", FALSE) >>,
            required |-> << "name" >>]
      [] name = "get_email_status" ->
           [properties |-> << FieldSchema("messageId", "string", FALSE) >>,
            required |-> << "messageId" >>]
      [] OTHER ->
           [properties |-> << >>, required |-> << >>]

\* arguments: null, a primitive, or an object with some fields supplied
NullArgs      == [shape |-> "null", fields |-> << >>]
PrimitiveArgs == [shape |-> "primitive", fields |-> << >>]
ObjectArgs(fields) == [shape |-> "object", fields |-> fields]

\* args[fieldName]
ArgsGet(args, fieldName) ==
    IF args.shape = "object" /\ fieldName \in DOMAIN args.fields
    THEN args.fields[fieldName]
    ELSE "undefined"

\* validateFieldType(fieldName, value, fieldSchema)
validateFieldType(value, fieldSchema) ==
    IF fieldSchema.enum /\ value # "enumString"
    THEN [valid |-> FALSE, error |-> "enum"]
    ELSE CASE fieldSchema.type = "string"  ->
                IF TypeOf(value) # "string"
                THEN [valid |-> FALSE, error |-> "type"] ELSE [valid |-> TRUE, error |-> "none"]
           [] fieldSchema.type = "number"  ->
                IF TypeOf(value) # "number"
                THEN [valid |-> FALSE, error |-> "type"] ELSE [valid |-> TRUE, error |-> "none"]
           [] fieldSchema.type = "boolean" ->
                IF TypeOf(value) # "boolean"
                THEN [valid |-> FALSE, error |-> "type"] ELSE [valid |-> TRUE, error |-> "none"]
           [] fieldSchema.type = "object"  ->
                IF TypeOf(value) # "object" \/ value = "null"
                THEN [valid |-> FALSE, error |-> "type"] ELSE [valid |-> TRUE, error |-> "none"]
           [] fieldSchema.type = "array"   ->
                IF value # "array"
                THEN [valid |-> FALSE, error |-> "type"] ELSE [valid |-> TRUE, error |-> "none"]
           [] OTHER -> [valid |-> TRUE, error |-> "none"]

\* the first of the positions in bad (where a for loop returns), or 0
FirstBad(bad) ==
    IF bad = {} THEN 0 ELSE CHOOSE i \in bad : \A j \in bad : i <= j

\* validateToolArgs(tool, args): valid, the field and kind of the first
\* violation, and whether reading args[...] threw (args is null)
validateToolArgs(schema, args) ==
    LET Missing(requiredField) == ArgsGet(args, requiredField) \in {"undefined", "null"}
        Wrong(fieldSchema) ==
            /\ ArgsGet(args, fieldSchema.name) # "undefined"
            /\ ~validateFieldType(ArgsGet(args, fieldSchema.name), fieldSchema).valid
        m == FirstBad({i \in 1..Len(schema.required) : Missing(schema.required[i])})
        w == FirstBad({i \in 1..Len(schema.properties) : Wrong(schema.properties[i])})
    IN  IF args.shape = "null" /\ (schema.required # << >> \/ schema.properties # << >>)
        THEN [valid |-> FALSE, field |-> "none", error |-> "exception", threw |-> TRUE]
        ELSE IF m # 0
        THEN [valid |-> FALSE, field |-> schema.required[m], error |-> "required",
              threw |-> FALSE]
        ELSE IF w # 0
        THEN [valid |-> FALSE, field |-> schema.properties[w].name,
              error |-> validateFieldType(ArgsGet(args, schema.properties[w].name),
                                          schema.properties[w]).error,
              threw |-> FALSE]
        ELSE [valid |-> TRUE, field |-> "none", error |-> "none", threw |-> FALSE]

\* callTool(name, args) up to the choice of its branch; handler is what the
\* tool handler does when it is invoked ("ok", "fail", "throws")
ToolOutcomeOf(name, args, handler) ==
    IF name \notin RegisteredTools
    THEN "unknown"
    ELSE LET validationResult == validateToolArgs(InputSchema(name), args)
         IN  IF validationResult.threw THEN "argsFault"
             ELSE IF ~validationResult.valid THEN "invalid"
             ELSE handler

\* the names and arguments of the calls made
ToolNames == RegisteredTools \cup {"no_such_tool"}

ArgsFor(name) ==
    {NullArgs, PrimitiveArgs} \cup
    CASE name = "send_email" ->
           {ObjectArgs([to |-> a, templateData |-> b, async |-> c, priority |-> d]) :
               a \in {"undefined", "null", "string", "number"},
               b \in {"undefined", "null", "object", "array", "string"},
               c \in {"undefined", "boolean", "string"},
               d \in {"undefined", "enumString", "string", "number"}}
      [] name = "get_email_template" ->
           {ObjectArgs([name |-> a]) : a \in ValueKinds}
      [] name = "get_email_status" ->
           {ObjectArgs([messageId |-> a]) : a \in ValueKinds}
      [] OTHER -> {ObjectArgs(<< >>)}

HandlerOutcomes == ToolResults \cup {"throws"}

NoToolCall == [name |-> "none", args |-> NullArgs, handler |-> "ok", outcome |-> "none",
               result |-> [success |-> FALSE, error |-> "none", invoked |-> FALSE,
                           escaped |-> FALSE],
               returned |-> FALSE]

InitTool == toolLast = NoToolCall

\* one call of ToolRegistry.callTool(name, args); the registry keeps no state
\* between calls, so a run makes one
CallTool(name, args, handler) ==
    /\ toolLast.name = "none"
    /\ LET outcome == ToolOutcomeOf(name, args, handler)
       IN  toolLast' = [name |-> name, args |-> args, handler |-> handler,
                        outcome |-> outcome, result |-> callTool(outcome),
                        returned |-> ~callTool(outcome).escaped]
    /\ UNCHANGED <<now, exceptTool>>

(***************************************************************************)
(* Dispatch of one message by each transport variant                       *)
(***************************************************************************)
\* the messages handed to the dispatchers: the tool matters to tools/call only
DispMessages ==
    {FalsyMessage} \cup
    {Message(TRUE, t, i, m, r, p, "ok") :
        t \in TagValues, i \in IdValues, m \in Methods \ {"tools/call"}, r \in BOOLEAN,
        p \in ParamKinds}
    \cup
    {Message(TRUE, t, i, "tools/call", r, p, o) :
        t \in TagValues, i \in IdValues, r \in BOOLEAN, p \in ParamKinds,
        o \in ToolOutcomes}

\* the URLs whose message handleMcpSSESession processes (method present)
DispUrls ==
    [method : Methods \ {"absent"}, params : {"absent", "invalid", "empty", "full"},
     id : UrlIds, tool : ToolOutcomes]

\* the JsonRpcMessage processUrlMessage builds from the URL
UrlMessage(url, id) ==
    Message(TRUE, "2.0", id, url.method, FALSE,
            IF url.params = "invalid" THEN "absent" ELSE url.params, url.tool)

\* the request as the client put it into the URL: its id parameter as given
\* and its params as given ("invalid": not JSON)
UrlSent(url) == Message(TRUE, "2.0", url.id, url.method, FALSE, url.params, url.tool)

\* sent: the message as the client sent it; message: as the dispatcher took it
NoDispatch == [variant |-> "none", message |-> FalsyMessage, outcome |-> "none",
               response |-> NoResponse, sent |-> FalsyMessage]

InitDisp == dispLast = NoDispatch

OutcomeOf(response) == IF response = NoResponse THEN "silent" ELSE "send"

\* The dispatchers keep no state between messages, so a run dispatches one.
\* McpStreamableHttpHandler.processJsonRpcMessage on one message
DispatchSync(message) ==
    /\ dispLast.variant = "none"
    /\ LET response == StreamableProcessJsonRpcMessage(message)
       IN  dispLast' = [variant |-> "sync", message |-> message,
                        outcome |-> OutcomeOf(response), response |-> response,
                        sent |-> message]
    /\ UNCHANGED <<now, exceptDisp>>

\* McpCloudflareCompatibleHandler.processJsonRpcMessage on one message
DispatchCf(message) ==
    /\ dispLast.variant = "none"
    /\ LET response == CfProcessJsonRpcMessage(message)
       IN  dispLast' = [variant |-> "cf", message |-> message,
                        outcome |-> OutcomeOf(response), response |-> response,
                        sent |-> message]
    /\ UNCHANGED <<now, exceptDisp>>

\* McpHandlerSSE.handleSSEMessage from its format check on
DispatchSse(message) ==
    /\ dispLast.variant = "none"
    /\ LET out == SseDispatch(message)
       IN  dispLast' = [variant |-> "sse", message |-> message,
                        outcome |-> out.outcome, response |-> out.response,
                        sent |-> message]
    /\ UNCHANGED <<now, exceptDisp>>

\* SSETransportSimplified.processUrlMessage on the URL of a connection
DispatchUrl(url) ==
    /\ dispLast.variant = "none"
    /\ LET out == processUrlMessage(url, 0)
       IN  dispLast' = [variant |-> "stateless", message |-> UrlMessage(url, out.id),
                        outcome |-> "send", response |-> out.response,
                        sent |-> UrlSent(url)]
    /\ UNCHANGED <<now, exceptDisp>>

(***************************************************************************)
(* Cache manager: calls interleaved at their suspension points             *)
(*                                                                         *)
(* A get suspends at  await this.cache.match(..)  and, when it finds its   *)
(* response expired, at  await this.cache.delete(..)  inside delete; a set *)
(* suspends at  await this.cache.put(..) .  The store serves one           *)
(* operation at a time; other calls run while a call is suspended.         *)
(***************************************************************************)
\* get up to the answer of cache.match: over at once while caching is off
getMatch(cfg, store) ==
    IF ~cfg.enabled
    THEN [done |-> TRUE, value |-> "null", response |-> NoEntry]
    ELSE [done |-> FALSE, value |-> "undefined", response |-> store]

\* get from the answer of cache.match on: a miss, an expired response (the
\* call issues the delete and suspends again), or the parsed body
getResume(response, t) ==
    IF ~response.present
    THEN [done |-> TRUE, value |-> "null", purge |-> FALSE]
    ELSE IF (t - response.date) > response.maxAge * 1000
    THEN [done |-> FALSE, value |-> "undefined", purge |-> TRUE]
    ELSE IF ParseJson(response.body) = "throws"
    THEN [done |-> TRUE, value |-> "null", purge |-> FALSE]
    ELSE [done |-> TRUE, value |-> ParseJson(response.body), purge |-> FALSE]

\* the last set that completed with no explicit delete and no other set after it
NoSet == [made |-> FALSE, data |-> "undefined", date |-> 0, maxAge |-> 0]

\* a completed set is still within its ttl at t
WithinTtl(set, t) == set.made /\ (t - set.date) <= set.maxAge * 1000

\* phase: "idle", "matched" (cache.match has answered) or "purging" (the
\* delete of the expired response is issued); response: the answer of
\* cache.match; lastSet: see NoSet; startedFresh: the get began after a set
\* completed and within its ttl; disturbed: a set or an explicit delete ran
\* while the get was suspended; done, value, owed, payload: the last get that
\* completed, what it returned, whether a completed set was within its ttl
\* from the start of the get to its end with no set or delete between, and
\* the payload of that set
NoRun == [phase |-> "idle", response |-> NoEntry, lastSet |-> NoSet,
          startedFresh |-> FALSE, disturbed |-> FALSE,
          done |-> FALSE, value |-> "undefined", owed |-> FALSE,
          payload |-> "undefined", purged |-> FALSE]

InitRun == cacheRun = NoRun

\* the record of a get that completes at t with the value
Completed(run, t, value, purged) ==
    [run EXCEPT !.phase = "idle", !.response = NoEntry,
                !.done = TRUE, !.value = value,
                !.owed = run.startedFresh /\ ~run.disturbed /\ WithinTtl(run.lastSet, t),
                !.payload = run.lastSet.data,
                !.purged = purged]

\* get(key) is called and cache.match answers
GetMatch ==
    /\ cacheRun.phase = "idle"
    /\ LET out == getMatch(cacheConfig, cacheStore)
           started == [cacheRun EXCEPT !.startedFresh = WithinTtl(cacheRun.lastSet, now),
                                       !.disturbed = FALSE, !.done = FALSE,
                                       !.purged = FALSE]
       IN  cacheRun' = IF out.done
                       THEN Completed(started, now, out.value, FALSE)
                       ELSE [started EXCEPT !.phase = "matched",
                                            !.response = out.response]
    /\ UNCHANGED <<now, cacheStore, exceptRun>>

\* the get resumes with the answer of cache.match
GetResume ==
    /\ cacheRun.phase = "matched"
    /\ LET out == getResume(cacheRun.response, now)
       IN  cacheRun' = IF out.done
                       THEN Completed(cacheRun, now, out.value, FALSE)
                       ELSE [cacheRun EXCEPT !.phase = "purging"]
    /\ UNCHANGED <<now, cacheStore, exceptRun>>

\* cache.delete of the lazy purge takes effect and the get returns null
GetPurge ==
    /\ cacheRun.phase = "purging"
    /\ cacheStore' = NoEntry
    /\ cacheRun' = Completed(cacheRun, now, "null", cacheStore.present)
    /\ UNCHANGED <<now, exceptRun>>

\* a set by another call, from its call to the completion of cache.put
RunSet(data, ttl) ==
    /\ cacheStore' = cacheSet(cacheConfig, cacheStore, now, data, ttl)
    /\ cacheRun' = [cacheRun EXCEPT
                        !.lastSet = IF cacheConfig.enabled
                                    THEN [made |-> TRUE, data |-> data,
                                          date |-> DateHeader(now),
                                          maxAge |-> IF ttl = 0 THEN cacheConfig.defaultTtl
                                                                ELSE ttl]
                                    ELSE @,
                        !.disturbed = TRUE]
    /\ UNCHANGED <<now, exceptRun>>

\* an explicit delete(key) by another call
RunDelete ==
    /\ cacheStore.present
    /\ cacheStore' = NoEntry
    /\ cacheRun' = [cacheRun EXCEPT !.lastSet = NoSet, !.disturbed = TRUE]
    /\ UNCHANGED <<now, exceptRun>>

(***************************************************************************)
(* Backend client: HttpClient.makeRequest                                  *)
(***************************************************************************)
DefaultRetries == 2     \* this.retries = options.retries || 2

\* the options a client is constructed with: options.retries omitted, or
\* given as a number (0 included)
NoOptions == [given |-> FALSE, retries |-> 0]
RetryOptions ==
    {NoOptions} \cup {[given |-> TRUE, retries |-> n] : n \in 0..MaxRetriesOpt}

\* the constructor: the backend mode and this.retries; an omitted
\* options.retries and a given 0 are both falsy
HttpClient(useServiceBinding, options) ==
    [useServiceBinding |-> useServiceBinding,
     retries |-> IF ~options.given \/ options.retries = 0
                 THEN DefaultRetries
                 ELSE options.retries]

\* how one attempt ends: a 2xx response, a 404 or 500 response with a JSON
\* body, a 404 response whose body is not JSON, a network failure of fetch,
\* or the abort of the request by its timeout
AttemptResults == {"ok", "status404", "status500", "status404NoJson", "network", "abort"}

\* the error an attempt throws: its name, and the prefix and status its
\* message starts with
ErrorOf(client, result) ==
    CASE result \in {"status404", "status500"} ->
           [name |-> "Error",
            prefix |-> IF client.useServiceBinding THEN "Service" ELSE "HTTP",
            status |-> IF result = "status404" THEN 404 ELSE 500]
      [] result = "status404NoJson" -> [name |-> "SyntaxError", prefix |-> "none", status |-> 0]
      [] result = "abort"           -> [name |-> "AbortError", prefix |-> "none", status |-> 0]
      [] OTHER                      -> [name |-> "TypeError", prefix |-> "none", status |-> 0]

\* isRetryableError(error): message.includes('HTTP 4')
isRetryableError(error) ==
    /\ error.name # "AbortError"
    /\ ~(error.prefix = "HTTP" /\ error.status \div 100 = 4)

RECURSIVE Pow2(_)
Pow2(n) == IF n = 0 THEN 1 ELSE 2 * Pow2(n - 1)

\* makeRequest retrying once more than this.retries allows
makeRequest_OneMore(client, attempt, result) ==
    IF result = "ok"
    THEN [done |-> TRUE, outcome |-> "response", delay |-> 0]
    ELSE IF attempt <= client.retries + 1 /\ isRetryableError(ErrorOf(client, result))
    THEN [done |-> FALSE, outcome |-> "none", delay |-> Pow2(attempt - 1) * 1000]
    ELSE [done |-> TRUE, outcome |-> "error", delay |-> 0]

\* makeRequest(method, path, data, attempt), its own attempt: whether the
\* call is over, how, and the delay before the recursive call
makeRequest(client, attempt, result) ==
    IF result = "ok"
    THEN [done |-> TRUE, outcome |-> "response", delay |-> 0]
    ELSE IF attempt <= client.retries /\ isRetryableError(ErrorOf(client, result))
    THEN [done |-> FALSE, outcome |-> "none", delay |-> Pow2(attempt - 1) * 1000]
    ELSE [done |-> TRUE, outcome |-> "error", delay |-> 0]

\* options: what the client of the call was constructed with
NoRequest == [client |-> HttpClient(FALSE, NoOptions), options |-> NoOptions,
              state |-> "idle", attempt |-> 0,
              results |-> << >>, waits |-> << >>, outcome |-> "none"]

InitHttp == http = NoRequest

\* new HttpClient(env, options) and the call of get / post
HttpStart(useServiceBinding, options) ==
    /\ http.state = "idle"
    /\ http' = [NoRequest EXCEPT !.client = HttpClient(useServiceBinding, options),
                                 !.options = options,
                                 !.state = "running", !.attempt = 1]
    /\ UNCHANGED <<now, exceptHttp>>

\* one invocation of makeRequest: the attempt, and the delay when it retries
HttpAttempt(result) ==
    /\ http.state = "running"
    /\ LET out == makeRequest(http.client, http.attempt, result)
       IN  http' = [http EXCEPT
                       !.results = Append(@, result),
                       !.waits = IF out.done THEN @ ELSE Append(@, out.delay),
                       !.attempt = IF out.done THEN @ ELSE @ + 1,
                       !.state = IF out.done THEN "done" ELSE "running",
                       !.outcome = out.outcome]
    /\ UNCHANGED <<now, exceptHttp>>

(***************************************************************************)
(* Specifications                                                          *)
(***************************************************************************)
InitIn(envs, cacheEnabled) ==
    /\ now = 0
    /\ InitRL(envs)
    /\ InitGate
    /\ InitSync
    /\ InitCf
    /\ InitSl
    /\ InitSess
    /\ InitCache(cacheEnabled)
    /\ InitDisp
    /\ InitTool
    /\ InitHttp
    /\ InitFx
    /\ InitRun

\* the rate-limiter specifications run under every environment, the others
\* (which never read the limiter's configuration) under the default one
Init == InitIn(Envs, {TRUE})
InitDefault == InitIn({DefaultEnv}, {TRUE})
\* the cache specification runs with caching enabled and with caching disabled
InitCaches == InitIn({DefaultEnv}, BOOLEAN)

NextKeys ==
    \/ \E c \in KeyClientIds : CheckBase(c, "")
    \/ \E c \in KeyClientIds, e \in KeyPaths : CheckByEndpoint(c, e)
    \/ SweepRecords
    \/ TickRL

SpecKeys == Init /\ [][NextKeys]_vars

NextFx ==
    \/ \E f \in SUBSET StoreOps : FxGet(f)
    \/ \E f \in SUBSET StoreOps, d \in {"obj1", "null"}, ttl \in {0, 1} : FxSet(f, d, ttl)
    \/ \E f \in SUBSET StoreOps : FxDelete(f)
    \/ \E f \in SUBSET StoreOps, d \in {"obj1", "obj2"}, ttl \in {0, 1} : FxGetOrSet(f, d, ttl)
    \/ \E f \in SUBSET StoreOps, b \in BOOLEAN : FxListTemplates(f, b, "obj2")
    \/ TickCache

SpecFx == InitCaches /\ [][NextFx]_vars

NextRL ==
    \/ \E c \in ClientIds : CheckBase(c, "")
    \/ \E e \in Paths \cup AdminSubPaths : CheckByEndpoint("A", e)
    \/ \E c \in ClientIds, e \in Endpoints : resetClient(c, e)
    \/ SweepRecords
    \/ TickRL

SpecRL == Init /\ [][NextRL]_vars

NextGate ==
    \/ \E c \in ClientIds, p \in Paths : GateRequest(c, p)
    \/ TickRL

SpecGate == Init /\ [][NextGate]_vars

NextSync == \E r \in SyncRequests : HandleHttpPost(r)

SpecSync == InitDefault /\ [][NextSync]_vars

NextCf ==
    \/ \E ok \in BOOLEAN : CfConnect(ok)
    \/ \E sid \in 0..MaxCfHandlers, ps \in BOOLEAN, m \in CfMessages :
          CfPost(sid, ps, m)
    \/ \E sid \in 1..MaxCfHandlers : CfTimeout(sid)
    \/ \E sid \in 1..MaxCfHandlers : CfClientAbort(sid)
    \/ TickCf

SpecCf == InitDefault /\ [][NextCf]_vars

NextSl ==
    \/ \E u \in Urls, a \in {"never", "connected", "message"} : SlConnect(u, a)
    \/ SlHeartbeat
    \/ SlTimeout
    \/ SlClientAbort
    \/ TickSl

SpecSl == InitDefault /\ [][NextSl]_vars

NextSess ==
    \/ HandleSSEConnection
    \/ CreateSession
    \/ \E fresh \in BOOLEAN : AddSession(fresh)
    \/ \E id \in ProbeIds : GetSession(id)
    \/ \E id \in ProbeIds : RemoveSession(id)
    \/ \E id \in ProbeIds : Heartbeat(id)
    \/ BroadcastToAll
    \/ CleanupExpired
    \/ \E id \in ProbeIds : TransportBreak(id)
    \/ TickSess

SpecSess == InitDefault /\ [][NextSess]_vars

\* single-session operations of the broadcast specification: one session the
\* eviction at capacity takes and one it leaves
BroadcastProbeIds == {1, MAX_SESSIONS \div 10 + 1}

\* the registry as McpHandlerSSE drives it: every session it registers has
\* taken its stream's writer before the connection handler returns
NextBroadcast ==
    \/ HandleSSEConnection
    \/ \E id \in BroadcastProbeIds : GetSession(id)
    \/ \E id \in BroadcastProbeIds : Heartbeat(id)
    \/ BroadcastToAll
    \/ \E id \in BroadcastProbeIds : TransportBreak(id)
    \/ TickSess

SpecBroadcast == InitDefault /\ [][NextBroadcast]_vars

NextSseMsg ==
    \/ \E post \in SsePosts : HandleSSEMessage(post[1], post[2], post[3])
    \/ CleanupExpired
    \/ \E id \in ProbeIds : RemoveSession(id)
    \/ \E id \in ProbeIds : TransportBreak(id)
    \/ TickSess

SpecSseMsg == InitDefault /\ [][NextSseMsg]_vars

NextCache ==
    \/ \E d \in Payloads, ttl \in {0, 1} : GetOrSet(d, ttl)
    \/ CacheDelete
    \/ TickCache

SpecCache == InitCaches /\ [][NextCache]_vars

\* direct reads and writes of the cache
NextCacheRW ==
    \/ CacheGet
    \/ \E d \in Payloads, ttl \in {0, 1} : CacheSet(d, ttl)
    \/ CacheDelete
    \/ TickCache

SpecCacheRW == InitCaches /\ [][NextCacheRW]_vars

\* a get interleaved with the sets and deletes of other calls
NextRun ==
    \/ GetMatch
    \/ GetResume
    \/ GetPurge
    \/ \E d \in {"obj1", "obj2"}, ttl \in {0, 1} : RunSet(d, ttl)
    \/ RunDelete
    \/ TickCache

SpecRun == InitDefault /\ [][NextRun]_vars

\* one message through the dispatch of each transport variant
NextDisp ==
    \/ \E m \in DispMessages : DispatchSync(m)
    \/ \E m \in DispMessages : DispatchCf(m)
    \/ \E m \in DispMessages : DispatchSse(m)
    \/ \E u \in DispUrls : DispatchUrl(u)

SpecDisp == InitDefault /\ [][NextDisp]_vars

\* one call of the tool registry
NextTool ==
    \E name \in ToolNames, handler \in HandlerOutcomes :
        \E args \in ArgsFor(name) : CallTool(name, args, handler)

SpecTool == InitDefault /\ [][NextTool]_vars

\* one backend call
NextHttp ==
    \/ \E b \in BOOLEAN, o \in RetryOptions : HttpStart(b, o)
    \/ \E result \in AttemptResults : HttpAttempt(result)

SpecHttp == InitDefault /\ [][NextHttp]_vars

(***************************************************************************)
(* C1: with rate limiting enabled, a check that is the n-th on its key     *)
(* within one window, made with effective maximum m, returns limited=false *)
(* when n <= m, and limited=true with retryAfter > 0 when n = m+1 (and     *)
(* beyond).                                                                *)
(***************************************************************************)
C1_WindowQuota ==
    (config.enabled /\ rlLast.key # None) =>
        /\ (rlLast.n <= rlLast.max) => ~rlLast.limited
        /\ (rlLast.n > rlLast.max) => (rlLast.limited /\ rlLast.retryAfter > 0)

\* the (m+1)-th check of a window on an endpoint key has been made, m >= 1
C1_Witness ==
    /\ config.enabled /\ rlLast.byEndpoint
    /\ rlLast.max >= 1 /\ rlLast.n = rlLast.max + 1 /\ rlLast.limited

(***************************************************************************)
(* C2: the gate counts all requests of one client to one path within one   *)
(* window against one record: the (m+1)-th such request is answered 429    *)
(* and not passed to the handler.                                          *)
(***************************************************************************)
C2_GateSharedRecord ==
    (config.enabled /\ gateLast.key # None /\ gateLast.n > gateLast.max) =>
        gateLast.status = "429"

\* the messages of a batch that carry an id, in order
RECURSIVE WithId(_)
WithId(body) ==
    IF body = <<>> THEN <<>>
    ELSE (IF Head(body).truthy /\ Head(body).id # "absent" THEN <<Head(body)>> ELSE <<>>)
         \o WithId(Tail(body))

IsBatch(last) ==
    /\ last.served /\ last.request.contentTypeOk /\ last.request.parses
    /\ last.request.isArray

(***************************************************************************)
(* C6: a batch of N messages of which K carry an id yields an array of     *)
(* exactly K entries, the i-th entry carrying the id of the i-th           *)
(* id-carrying message, whatever the validity of the messages.             *)
(***************************************************************************)
C6_BatchOnePerId ==
    IsBatch(syncLast) =>
        LET reqs == WithId(syncLast.request.body)
            ents == syncLast.response.entries
        IN  /\ syncLast.response.body = "array"
            /\ Len(ents) = Len(reqs)
            /\ \A i \in 1..Len(ents) : ents[i].id = reqs[i].id

(***************************************************************************)
(* C7: a batch in which no message carries an id yields a response with no *)
(* body, as a lone notification does.                                      *)
(***************************************************************************)
C7_NotificationBatchNoBody ==
    LET body == syncLast.request.body
    IN  ( /\ IsBatch(syncLast)
          /\ body # <<>>
          /\ \A i \in 1..Len(body) :
                body[i].truthy /\ body[i].jsonrpc = "2.0" /\ body[i].id = "absent" ) =>
            syncLast.response.body = "none"

(***************************************************************************)
(* C3: after a connect has emitted the endpoint event for session s, a     *)
(* POST of a JSON-RPC request (with id) to the announced endpoint, made    *)
(* before the session times out and while the stream is open, finds the    *)
(* session, is acknowledged as accepted and has its response written into  *)
(* the stream of s as a message event.                                     *)
(***************************************************************************)
C3_PostReachesStream ==
    ( /\ cfLast.op = "post"
      /\ cfLast.sessionId \in DOMAIN cfStreams
      /\ cfStreams[cfLast.sessionId].writer = "open"
      /\ ~cfStreams[cfLast.sessionId].aborted
      /\ now < cfStreams[cfLast.sessionId].due
      /\ cfLast.request.truthy /\ cfLast.request.jsonrpc = "2.0"
      /\ cfLast.parses /\ cfLast.request.id # "absent" ) =>
        /\ cfLast.status = 202
        /\ cfLast.written.kind # "none"
        /\ LET ev == cfStreams[cfLast.sessionId].events
           IN  ev[Len(ev)] = [type |-> "message", data |-> cfLast.written]

(***************************************************************************)
(* C4: in every reachable state of the session registry, whatever calls    *)
(* of createSession, addSession, getSession, removeSession,                *)
(* broadcastToAll, heartbeat and cleanup led to it, the table holds at     *)
(* most MAX_SESSIONS entries.                                              *)
(***************************************************************************)
C4_TableWithinCapacity == Len(sessions) <= MAX_SESSIONS

\* the sessions in the table other than the one just admitted
Survivors == {i \in 1..Len(sessions) : sessions[i].id # sessLast.sessionId}

(***************************************************************************)
(* C5 as stated: a connect that arrives while the table is at capacity     *)
(* removes exactly floor(0.1 x capacity) sessions before admitting the new *)
(* one, and no surviving session was created earlier than a removed one.   *)
(***************************************************************************)
C5_ConnectAtCapacityEvictsTenth ==
    (sessLast.op = "connect" /\ sessLast.sizeBefore = MAX_SESSIONS) =>
        LET gone == sessLast.swept \cup sessLast.evicted
        IN  /\ Cardinality(gone) = MAX_SESSIONS \div 10
            /\ \A g \in gone : \A i \in Survivors : sessions[i].createdAt >= g.createdAt

(***************************************************************************)
(* C5 amended: a connect first sweeps expired and closed sessions (unless  *)
(* a sweep ran less than CLEANUP_INTERVAL ago); when the table still holds *)
(* at least capacity entries after that, the capacity rule evicts exactly  *)
(* floor(0.1 x capacity) sessions before the new one is admitted, and no   *)
(* surviving session was created earlier than one evicted by that rule.    *)
(***************************************************************************)
C5_EvictsOldestTenthAfterSweep ==
    (sessLast.op = "connect" /\ sessLast.afterSweep >= MAX_SESSIONS) =>
        /\ Cardinality(sessLast.evicted) = MAX_SESSIONS \div 10
        /\ \A g \in sessLast.evicted :
              \A i \in Survivors : sessions[i].createdAt >= g.createdAt

\* a connect at capacity has evicted while a session that was re-registered
\* later, and so carries a later creation time, stayed in the table
C5_Witness ==
    /\ sessLast.op = "connect" /\ sessLast.afterSweep >= MAX_SESSIONS
    /\ sessLast.evicted # {}
    /\ \E g \in sessLast.evicted :
          \E i \in Survivors : sessions[i].createdAt > g.createdAt

\* the session the last message was posted to has an open, working stream
StreamHealthy ==
    /\ HasSession(sessions, sessLast.sessionId)
    /\ LET tr == SessionAt(sessions, sessLast.sessionId).transport
       IN  tr.writer = "open" /\ ~tr.broken /\ ~tr.closed

(***************************************************************************)
(* C8: in each transport a message without id never produces a JSON-RPC    *)
(* response, whatever its method, and a message with an id always produces *)
(* exactly one response.                                                   *)
(***************************************************************************)
C8_OnlyRequestsAnswered ==
    /\ ( /\ sessLast.op = "message" /\ sessLast.parses
         /\ sessLast.status \notin {400, 404} /\ StreamHealthy ) =>
            IF sessLast.request.id = "absent"
            THEN sessLast.written = NoResponse
            ELSE sessLast.written # NoResponse /\ sessLast.delivered
    /\ ( /\ syncLast.served /\ syncLast.request.contentTypeOk
         /\ syncLast.request.parses /\ ~syncLast.request.isArray ) =>
            IF syncLast.request.body[1].id = "absent"
            THEN syncLast.response.entries = <<>>
            ELSE Len(syncLast.response.entries) = 1
    /\ (slConn.state = "open" /\ slConn.url.method # "absent") =>
            IF slConn.url.id = "absent"
            THEN slConn.written = NoResponse
            ELSE slConn.written # NoResponse

(***************************************************************************)
(* C9: every JSON-RPC response produced for a request carries the id of    *)
(* that request, for every id a client may send, the number 0 included,    *)
(* and on every error path.                                                *)
(***************************************************************************)
C9_ResponseCarriesRequestId ==
    /\ ( /\ syncLast.served /\ syncLast.request.contentTypeOk
         /\ syncLast.request.parses /\ ~syncLast.request.isArray
         /\ syncLast.request.body[1].truthy
         /\ syncLast.request.body[1].id # "absent" ) =>
            \A i \in 1..Len(syncLast.response.entries) :
                syncLast.response.entries[i].id = syncLast.request.body[1].id
    /\ ( /\ sessLast.op = "message" /\ sessLast.parses
         /\ sessLast.request.id # "absent" /\ sessLast.written # NoResponse ) =>
            sessLast.written.id = sessLast.request.id
    /\ ( /\ slConn.state = "open" /\ slConn.url.id \notin {"absent", "s_empty"}
         /\ slConn.written # NoResponse ) =>
            slConn.written.id = slConn.url.id

(***************************************************************************)
(* C10: with caching enabled, when a getOrSet call has invoked             *)
(* fetchFunction and stored its payload, the next getOrSet call on the key *)
(* made within ttl does not invoke fetchFunction and returns the same      *)
(* payload, for every payload fetchFunction can return; a call made after  *)
(* ttl has elapsed invokes fetchFunction again.                            *)
(***************************************************************************)
C10_GetOrSetFetchesOnce ==
    ( /\ cacheConfig.enabled /\ cacheLast.this.made /\ cacheLast.prev.made
      /\ cacheLast.prev.invoked ) =>
        /\ (cacheLast.this.at - cacheLast.prev.at <= cacheLast.prev.ttl * 1000) =>
              /\ ~cacheLast.this.invoked
              /\ cacheLast.this.value = cacheLast.prev.value
        /\ (cacheLast.this.at - cacheLast.prev.at > cacheLast.prev.ttl * 1000) =>
              cacheLast.this.invoked

\* the last direct call was a get on an entry older than its max-age
ReadOfExpired ==
    /\ cacheConfig.enabled /\ cacheOp.op = "get" /\ cacheOp.hadEntry
    /\ cacheOp.at - cacheOp.writtenAt > cacheOp.maxAge * 1000

\* the last direct call was a get made right after a set, at the same instant
ReadAfterSet ==
    /\ cacheConfig.enabled /\ cacheOp.op = "get"
    /\ cacheOp.prevOp = "set" /\ cacheOp.prevAt = cacheOp.at

(***************************************************************************)
(* C11: a get on an entry whose age exceeds its max-age returns a miss and *)
(* leaves the entry absent; a get right after a set returns the payload    *)
(* that was set.                                                           *)
(***************************************************************************)
C11_ExpiredPurgedFreshServed ==
    /\ ReadOfExpired => (cacheOp.value = "null" /\ ~cacheStore.present)
    /\ ReadAfterSet => cacheOp.value = cacheOp.prevData

(***************************************************************************)
(* C12 as stated: after resetClient on a blocked key, the very next check  *)
(* on that key inside the same window returns limited=false with count 1.  *)
(***************************************************************************)
C12_ResetUnblocks ==
    rlReset.state = "checked" => (~rlLast.limited /\ rlLast.count = 1)

(***************************************************************************)
(* C12 amended: after resetClient on a blocked key, the very next check on *)
(* that key inside the same window counts as the first of a new window     *)
(* (count 1), and returns limited=false when the effective maximum of the  *)
(* check is at least 1; with effective maximum 0 it is limited again.      *)
(***************************************************************************)
C12_ResetRestartsCount ==
    rlReset.state = "checked" =>
        /\ rlLast.count = 1
        /\ rlLast.limited <=> (rlLast.max = 0)

\* a blocked key has been reset and checked again inside the same window,
\* under an effective maximum of at least 1
C12_Witness ==
    /\ rlReset.state = "checked" /\ rlLast.max >= 1 /\ rlLast.key = rlReset.key

(***************************************************************************)
(* C13: a tools/call request (a message with an id) that names a tool      *)
(* which is not registered is answered, by the dispatch of every transport *)
(* variant, with a JSON-RPC result whose envelope has isError = true, not  *)
(* with a JSON-RPC error object; the dispatch does not throw and no tool   *)
(* handler is invoked.                                                     *)
(***************************************************************************)
ToolCallRequest ==
    /\ dispLast.variant # "none"
    /\ dispLast.message.truthy
    /\ dispLast.message.jsonrpc = "2.0"
    /\ dispLast.message.id # "absent"
    /\ dispLast.message.method = "tools/call"
    /\ dispLast.message.params = "full"

C13_UnknownToolIsErrorResult ==
    (ToolCallRequest /\ dispLast.message.tool = "unknown") =>
        /\ dispLast.outcome = "send"
        /\ dispLast.response.kind = "result"
        /\ dispLast.response.isError
        /\ ~callTool(dispLast.message.tool).invoked

C13_Witness ==
    /\ ToolCallRequest
    /\ dispLast.message.tool = "unknown"
    /\ dispLast.variant = "stateless"
    /\ dispLast.response.kind = "result"

(***************************************************************************)
(* C14: a tools/call request that names an unknown tool, or whose          *)
(* arguments fail the tool's schema validation, is rejected with a         *)
(* JSON-RPC error object whose code is InvalidParams.                      *)
(***************************************************************************)
C14_ToolRejectionIsInvalidParams ==
    (ToolCallRequest /\ dispLast.message.tool \in {"unknown", "invalid"}) =>
        /\ dispLast.response.kind = "error"
        /\ dispLast.response.code = "InvalidParams"

(***************************************************************************)
(* C15: when the tool handler raises an exception during tools/call, the   *)
(* client receives a JSON-RPC error with code InternalError (carrying the  *)
(* exception message as data), and no raw fault reaches the client.        *)
(***************************************************************************)
C15_HandlerFaultIsInternalError ==
    (ToolCallRequest /\ dispLast.message.tool = "throws") =>
        /\ dispLast.outcome = "send"
        /\ dispLast.response.kind = "error"
        /\ dispLast.response.code = "InternalError"

(***************************************************************************)
(* C16: in every transport variant a message is valid iff its protocol tag *)
(* is "2.0" and it carries a method, a result or an error; every message   *)
(* with an id that is not valid in this sense is answered with             *)
(* InvalidRequest and is not dispatched to the method table.               *)
(***************************************************************************)
ValidEnvelope(message) ==
    /\ message.truthy
    /\ message.jsonrpc = "2.0"
    /\ (message.method # "absent" \/ message.hasResult)

C16_InvalidEnvelopeIsInvalidRequest ==
    (/\ dispLast.variant # "none"
     /\ dispLast.message.id # "absent"
     /\ ~ValidEnvelope(dispLast.message)) =>
        /\ dispLast.outcome = "send"
        /\ dispLast.response.kind = "error"
        /\ dispLast.response.code = "InvalidRequest"

C18_NoWriteAfterFailedWrite == slConn.failed <= 1

(***************************************************************************)
(* C19: once a streaming connection is closed (by its timeout or by a      *)
(* write failure), both its heartbeat timer and its session-timeout timer  *)
(* are cancelled, so that neither callback fires after the close.          *)
(***************************************************************************)
SlClosed == slConn.state = "closed" \/ slConn.failed >= 1

C19_TimersCancelledOnClose ==
    SlClosed => (~slConn.heartbeat /\ slConn.timeoutAt = -1)

(***************************************************************************)
(* C20: when writing a JSON-RPC response into a session's stream fails     *)
(* (write after close, or aborted stream), the session is removed from the *)
(* session table and the POST to the message endpoint is still             *)
(* acknowledged, not answered with a server error.                         *)
(***************************************************************************)
C20_WriteFailureRemovesSession ==
    (/\ sessLast.op = "message"
     /\ sessLast.written # NoResponse
     /\ ~sessLast.delivered) =>
        /\ ~HasSession(sessions, sessLast.sessionId)
        /\ sessLast.status < 500

(***************************************************************************)
(* C21: callTool invokes a tool handler iff the name is registered and the *)
(* arguments pass schema validation, where validation passes iff every     *)
(* required field is present and every supplied declared field matches its *)
(* declared type (string, number, boolean, object, array) and, when an     *)
(* enum is declared, is a member of it; on an unknown name or on a         *)
(* violation no handler is invoked and a failure result is returned.       *)
(***************************************************************************)
\* the JSON type of a value
JsonType(value) == IF value = "enumString" THEN "string" ELSE value

FieldMatches(value, fieldSchema) ==
    /\ JsonType(value) = fieldSchema.type
    /\ fieldSchema.enum => value = "enumString"

ArgsPassSchema(name, args) ==
    LET schema == InputSchema(name)
    IN  /\ \A i \in 1..Len(schema.required) :
              ArgsGet(args, schema.required[i]) \notin {"undefined", "null"}
        /\ \A i \in 1..Len(schema.properties) :
              ArgsGet(args, schema.properties[i].name) # "undefined" =>
                  FieldMatches(ArgsGet(args, schema.properties[i].name),
                               schema.properties[i])

C21_HandlerInvokedIffValid ==
    toolLast.name # "none" =>
        /\ toolLast.result.invoked <=>
              (toolLast.name \in RegisteredTools /\ ArgsPassSchema(toolLast.name, toolLast.args))
        /\ ~toolLast.result.invoked => ~toolLast.result.success

(***************************************************************************)
(* C22: callTool never lets an exception escape: for every name, every     *)
(* argument value (null and non-object arguments included) and every       *)
(* handler fault it completes with a result, and the result is consistent: *)
(* success = true implies that no error is set.                            *)
(***************************************************************************)
C22_CallToolAlwaysReturns ==
    toolLast.name # "none" =>
        /\ toolLast.returned
        /\ ~toolLast.result.escaped
        /\ toolLast.result.success => toolLast.result.error = "none"

C22_Witness ==
    /\ toolLast.name = "send_email"
    /\ toolLast.args = NullArgs
    /\ toolLast.outcome = "argsFault"
    /\ toolLast.returned
    /\ ~toolLast.result.success

C24_NoRetryAfter4xxOrAbort ==
    \A k \in 1..Len(http.results) :
        http.results[k] \in {"status404", "status404NoJson", "abort"} =>
            /\ k = Len(http.results)
            /\ http.state = "done"
            /\ http.outcome = "error"

(***************************************************************************)
(* C25: the endpoint-specific limit is a pure derived value: at no point   *)
(* of an isRateLimitedByEndpoint call, the time between its start and its  *)
(* return included, does the limiter's shared configuration hold a value   *)
(* other than the base configuration.                                      *)
(***************************************************************************)
C25_ConfigNeverOverridden ==
    (rlLast.key # None /\ rlLast.byEndpoint) => rlLast.during = rlLast.base

(***************************************************************************)
(* C26: requests interleave at suspension points only, and the check has   *)
(* none: every check for an endpoint is evaluated against that endpoint's  *)
(* own effective maximum, and after every check has returned the shared    *)
(* configuration's maxRequests and windowMs are the base values.           *)
(***************************************************************************)
C26_ChecksSeeOwnOverride ==
    rlLast.key # None =>
        /\ config.maxRequests = rlLast.base.maxRequests
        /\ config.windowMs = rlLast.base.windowMs
        /\ rlLast.during.maxRequests =
              IF rlLast.byEndpoint
              THEN getEndpointConfig(rlLast.base, rlLast.endpoint).maxRequests
              ELSE rlLast.base.maxRequests
        /\ rlLast.base.enabled =>
              (rlLast.limited <=> rlLast.count > rlLast.during.maxRequests)

C26_Witness ==
    /\ rlLast.byEndpoint
    /\ rlLast.endpoint = "/mcp/v1"
    /\ rlLast.base.enabled
    /\ rlChecks >= 2
    /\ \E k \in DOMAIN records :
          /\ k = generateKey("A", "/mcp/tools")
          /\ records[k].blocked
    /\ ~rlLast.limited

\* the administrative paths among the modelled ones: every path under /admin
AdminPaths == {"/admin"} \cup AdminSubPaths

\* the maximum the endpoint coefficients give a path
ScaledMax(base, path) ==
    CASE path \in AdminPaths      -> base \div 6
      [] path = "/mcp/tools/call" -> (base * 8) \div 10
      [] path = "/mcp/tools"      -> (base * 3) \div 10
      [] OTHER                    -> base

(***************************************************************************)
(* C27: the maximum an endpoint-aware check applies is the base maximum    *)
(* scaled by the endpoint coefficient: floor(base/6) for every path under  *)
(* /admin, floor(0.8 base) for /mcp/tools/call, floor(0.3 base) for        *)
(* /mcp/tools, and the base maximum for every other path.                  *)
(***************************************************************************)
C27_EffectiveMaxIsScaledBase ==
    (rlLast.key # None /\ rlLast.byEndpoint /\ rlLast.base.enabled) =>
        rlLast.during.maxRequests = ScaledMax(rlLast.base.maxRequests, rlLast.endpoint)

\* the last check found a stored record whose window had elapsed, on an
\* enabled limiter whose maximum for the check is at least 1
ElapsedWindowCheck ==
    /\ rlLast.key # None
    /\ rlLast.base.enabled
    /\ rlLast.prev # NoRecord
    /\ rlLast.at >= rlLast.prev.resetTime
    /\ rlLast.during.maxRequests >= 1

(***************************************************************************)
(* C28: a record is replaced wholesale when its window has elapsed: the    *)
(* first check on a key at now >= resetTime is allowed (max >= 1) and      *)
(* leaves count = 1, blocked = false, resetTime = now + window, whatever   *)
(* count and blocked state the previous window ended with.                 *)
(***************************************************************************)
C28_ElapsedRecordReplaced ==
    ElapsedWindowCheck =>
        /\ ~rlLast.limited
        /\ rlLast.record = [count |-> 1, resetTime |-> rlLast.at + rlLast.base.windowMs,
                            blocked |-> FALSE]

C28_Witness ==
    /\ ElapsedWindowCheck
    /\ rlLast.prev.blocked
    /\ rlLast.prev.count > 1
    /\ rlLast.at = rlLast.prev.resetTime
    /\ rlLast.key \in DOMAIN records
    /\ records[rlLast.key] = rlLast.record

(***************************************************************************)
(* C29: after the k-th allowed endpoint-aware check of a key within one    *)
(* window, getClientStatus reports as remaining the endpoint's effective   *)
(* maximum minus k, and it reports 0 once the key is limited.              *)
(***************************************************************************)
C29_RemainingIsEffectiveMaxMinusK ==
    (rlLast.key # None /\ rlLast.byEndpoint /\ rlLast.base.enabled) =>
        rlLast.remaining =
            IF rlLast.limited
            THEN 0
            ELSE getEndpointConfig(rlLast.base, rlLast.endpoint).maxRequests - rlLast.count

(***************************************************************************)
(* C30: getSession(id) on a session idle for longer than the inactivity    *)
(* timeout removes it, closes its transport and returns none; on a session *)
(* that is not idle-expired it sets lastActivityAt to the current time and *)
(* returns the transport; on an unknown id it returns none; no other       *)
(* session's entry is changed.  (status 200: a transport was returned.)    *)
(***************************************************************************)
C30_GetSessionExpiresOrRefreshes ==
    sessLast.op = "getSession" =>
        LET b == sessLast.before
            a == sessLast.after
        IN  /\ sessLast.othersKept
            /\ ~b.present =>
                  /\ sessLast.status = 404
                  /\ ~a.present
                  /\ sessLast.closed = {}
            /\ (b.present /\ sessLast.at - b.info.lastActivityAt > SESSION_TIMEOUT) =>
                  /\ sessLast.status = 404
                  /\ ~a.present
                  /\ sessLast.closed # {}
                  /\ \A tr \in sessLast.closed : tr.closed
            /\ (b.present /\ sessLast.at - b.info.lastActivityAt <= SESSION_TIMEOUT) =>
                  /\ sessLast.status = 200
                  /\ a.present
                  /\ a.info = [b.info EXCEPT !.lastActivityAt = sessLast.at]
                  /\ sessLast.closed = {}

C30_Witness ==
    /\ sessLast.op = "getSession"
    /\ sessLast.before.present
    /\ sessLast.at - sessLast.before.info.lastActivityAt > SESSION_TIMEOUT
    /\ ~sessLast.before.info.transport.closed
    /\ sessLast.sizeBefore > 1
    /\ ~sessLast.after.present

C32_SweepOncePerInterval ==
    sessLast.op = "cleanup" =>
        /\ sessLast.othersKept
        /\ sessLast.at - sessLast.lcBefore < CLEANUP_INTERVAL =>
              /\ sessLast.idsAfter = sessLast.idsBefore
              /\ sessLast.count = 0
        /\ sessLast.at - sessLast.lcBefore >= CLEANUP_INTERVAL =>
              /\ sessLast.idsAfter = sessLast.idsBefore \cap sessLast.eligible
              /\ sessLast.count = Cardinality(sessLast.idsBefore \ sessLast.eligible)

\* a sweep that removed a session whose transport was closed, before any
\* session could be idle-expired, and kept the others
C32_Witness ==
    /\ sessLast.op = "cleanup"
    /\ sessLast.at - sessLast.lcBefore >= CLEANUP_INTERVAL
    /\ sessLast.at <= SESSION_TIMEOUT
    /\ sessLast.count > 0
    /\ sessLast.idsAfter # {}

(***************************************************************************)
(* C33: removeSession(id) is idempotent: on an absent id it changes        *)
(* nothing and raises nothing; on a present id it deletes exactly that     *)
(* entry and closes its transport, and a failure while closing is not      *)
(* propagated and does not prevent the deletion.                           *)
(***************************************************************************)
C33_RemoveSessionIdempotent ==
    sessLast.op = "removeSession" =>
        /\ sessLast.othersKept
        /\ ~sessLast.after.present
        /\ ~sessLast.threw
        /\ ~sessLast.before.present =>
              /\ sessLast.idsAfter = sessLast.idsBefore
              /\ sessLast.closed = {}
        /\ sessLast.before.present =>
              /\ sessLast.idsAfter = sessLast.idsBefore \ {sessLast.sessionId}
              /\ sessLast.closed # {}
              /\ \A tr \in sessLast.closed : tr.closed

\* the removed session's stream rejects: closing its writer fails
C33_Witness ==
    /\ sessLast.op = "removeSession"
    /\ sessLast.before.present
    /\ sessLast.before.info.transport.broken
    /\ ~sessLast.before.info.transport.closed
    /\ sessLast.idsAfter # {}

(***************************************************************************)
(* C34: cache operations are soft-fail: when the store fails on match, put *)
(* or delete, get returns a miss, set and delete report failure without    *)
(* raising, getOrSet still returns what fetchFn produced; a cache fault    *)
(* alone never turns a tool call into a failed result.                     *)
(***************************************************************************)
C34_CacheSoftFail ==
    cacheFx.op # None =>
        /\ ~cacheFx.threw
        /\ (cacheFx.op = "get" /\ "match" \in cacheFx.faults) =>
              /\ cacheFx.value = "null"
              /\ cacheFx.storeAfter = cacheFx.storeBefore
        /\ (cacheFx.op = "set" /\ "put" \in cacheFx.faults) =>
              /\ ~cacheFx.ok
              /\ cacheFx.storeAfter = cacheFx.storeBefore
        /\ (cacheFx.op = "delete" /\ "delete" \in cacheFx.faults) =>
              /\ ~cacheFx.ok
              /\ cacheFx.storeAfter = cacheFx.storeBefore
        /\ (cacheFx.op = "getOrSet" /\ cacheFx.invoked) =>
              cacheFx.value = cacheFx.fetched
        /\ (cacheFx.op = "listTemplates" /\ (cacheFx.backendOk \/ ~cacheFx.invoked)) =>
              cacheFx.success

\* a tool call with every store operation failing, over a stored entry
C34_Witness ==
    /\ cacheFx.op = "listTemplates"
    /\ cacheFx.faults = StoreOps
    /\ cacheFx.storeBefore.present
    /\ cacheConfig.enabled
    /\ cacheFx.success
    /\ cacheFx.value = cacheFx.fetched

\* the JSON-RPC outcome of a response: none, a result (an error envelope or
\* not), or an error and its code
OutcomeSig(response) == <<response.kind, response.code, response.isError>>

(***************************************************************************)
(* C35: the transport variants share one validation and method dispatch:   *)
(* for the same JSON-RPC message (same protocol tag, method, params and    *)
(* presence or absence of id) the synchronous, the stateful-stream and the *)
(* stateless-stream handler produce the same outcome: the same result, an  *)
(* error with the same code, or no response.                               *)
(***************************************************************************)
C35_VariantsAgree ==
    (/\ dispLast.variant \in {"sync", "cf", "stateless"}
     /\ dispLast.sent.params \in ParamKinds) =>
        /\ OutcomeSig(dispLast.response) =
              OutcomeSig(StreamableProcessJsonRpcMessage(dispLast.sent))
        /\ OutcomeSig(dispLast.response) =
              OutcomeSig(CfProcessJsonRpcMessage(dispLast.sent))

(***************************************************************************)
(* C36: distinct (clientId, endpoint) pairs never share a rate-limit       *)
(* record: an operation on one pair never changes the record of another,   *)
(* for all client identifiers the gate can produce (those that contain ':' *)
(* such as IPv6 addresses included), and getBlockedClients reports for     *)
(* each blocked record the clientId and endpoint it was created with.      *)
(***************************************************************************)
C36_RecordsPerPair ==
    /\ \A p, q \in KeyPairs :
          generateKey(p[1], p[2]) = generateKey(q[1], q[2]) => p = q
    /\ rlLast.key # None =>
          /\ rlLast.othersKept
          /\ (/\ rlLast.key \in DOMAIN records
              /\ records[rlLast.key].blocked
              /\ now < records[rlLast.key].resetTime) =>
                [clientId |-> rlLast.clientId, endpoint |-> rlLast.endpoint,
                 count |-> records[rlLast.key].count,
                 resetTime |-> records[rlLast.key].resetTime]
                    \in getBlockedClients(records, now)

C38_CloseEventThenSilence ==
    (/\ sessLast.op = "removeSession"
     /\ sessLast.before.present
     /\ ~sessLast.before.info.transport.closed
     /\ sessLast.before.info.transport.writer = "open"
     /\ ~sessLast.before.info.transport.broken) =>
        /\ sessLast.delivered
        /\ \A tr \in sessLast.closed : tr.closed /\ ~sendEvent(tr).wrote

(***************************************************************************)
(* C39: the backend client honours the configured retry count for every    *)
(* value: with retries configured as 0 a failed attempt is never retried   *)
(* (exactly one attempt is made), and with retries = n > 0 at most n       *)
(* retries follow the first attempt.                                       *)
(***************************************************************************)
C39_ConfiguredRetriesHonoured ==
    (http.state # "idle" /\ http.options.given) =>
        /\ Len(http.results) <= http.options.retries + 1
        /\ http.options.retries = 0 =>
              (Len(http.results) >= 1 => http.state = "done")

(***************************************************************************)
(* C40: under interleaving of cache operations at their suspension points, *)
(* the lazy purge of a get that found an expired entry never removes a     *)
(* fresh entry written for the same key by a concurrent set: once a set    *)
(* for the key has completed, a get of the key within its ttl returns      *)
(* that payload unless delete was explicitly requested.                    *)
(***************************************************************************)
C40_PurgeSparesFreshEntry ==
    /\ (cacheRun.done /\ cacheRun.owed) => cacheRun.value = cacheRun.payload
    /\ (cacheRun.done /\ cacheRun.purged) => ~WithinTtl(cacheRun.lastSet, now)
====
